---- MODULE Spec2Model ----
(***************************************************************************)
(* Model of bdd_generator.py: the test-case parser, the two generation     *)
(* phases, the worker threads that run them and the GUI handlers that      *)
(* start them.                                                             *)
(*                                                                         *)
(* A text is a sequence of tokens.  A token is a piece of text that the    *)
(* regular expressions of the source treat as a unit: a label literal, a   *)
(* newline, a blank, a digit, a period, or a word.                         *)
(***************************************************************************)
EXTENDS Integers, Sequences, FiniteSets, TLC

None == "None"

\* ------------------------------------------------------------------------
\* Program constants
\* ------------------------------------------------------------------------
MAX_RETRIES == 3

\* sys.get_int_max_str_digits(): int() of a longer digit string raises
MaxStrDigits == 4300

\* ------------------------------------------------------------------------
\* Bounds
\* ------------------------------------------------------------------------
MaxBlocks == 2

\* ------------------------------------------------------------------------
\* Tokens: [k |-> the literal, n |-> its length in characters].  A token
\* whose n exceeds Len(k) is a run: the one-character literal k repeated n
\* times (a long number, a long stretch of unstructured text).
\* ------------------------------------------------------------------------
T(k) == [k |-> k, n |-> Len(k)]
Run(k, n) == [k |-> k, n |-> n]

NL == T("\n")
SP == T(" ")
Whitespace == {NL, SP}

\* Character classes and literals of the regular expressions.  The strict
\* pattern is compiled with re.IGNORECASE (classes ending in "I"); the
\* block-split patterns and the "S.No:" test of the caller are not.
Is(cls, c) ==
    CASE cls = "ws"     -> c \in Whitespace
      [] cls = "notws"  -> c \notin Whitespace
      [] cls = "nl"     -> c = NL
      [] cls = "digit"  -> c.k \in {"0", "1", "2", "9"}
      [] cls = "SNo"    -> c.k = "S.No:"
      [] cls = "SNoI"   -> c.k \in {"S.No:", "s.no:"}
      [] cls = "Desc"   -> c.k = "TestCasesDescription:"
      [] cls = "DescI"  -> c.k \in {"TestCasesDescription:", "testcasesdescription:"}
      [] cls = "Step"   -> c.k = "StepAction:"
      [] cls = "StepI"  -> c.k \in {"StepAction:", "stepaction:"}
      [] cls = "Res"    -> c.k = "ExpectedResult:"
      [] cls = "ResI"   -> c.k \in {"ExpectedResult:", "expectedresult:"}
      [] cls = "nlStep" -> c = NL \/ c.k = "StepAction:"
      [] cls = "TestCases" -> c.k = "Test Cases:"
      [] cls = "Example"   -> c.k = "Example (for clarity,"

ErrorPrefix == T("ERROR_")

\* len(text)
RECURSIVE TextLen(_)
TextLen(t) == IF t = << >> THEN 0 ELSE Head(t).n + TextLen(Tail(t))

\* text[a..b], empty when b < a
Slice(t, a, b) == IF b < a THEN << >> ELSE SubSeq(t, a, b)

\* smallest q >= p with q beyond the end of t or t[q] not of class cls
RECURSIVE SkipWhile(_, _, _)
SkipWhile(t, p, cls) ==
    IF p > Len(t) \/ ~Is(cls, t[p]) THEN p ELSE SkipWhile(t, p + 1, cls)

\* smallest q >= p with t[q] of class cls, 0 when there is none
RECURSIVE FirstIn(_, _, _)
FirstIn(t, p, cls) ==
    IF p > Len(t) THEN 0
    ELSE IF Is(cls, t[p]) THEN p ELSE FirstIn(t, p + 1, cls)

\* largest q in a..b with t[q] of class cls, 0 when there is none
RECURSIVE LastIn(_, _, _, _)
LastIn(t, a, b, cls) ==
    IF b < a THEN 0
    ELSE IF Is(cls, t[b]) THEN b ELSE LastIn(t, a, b - 1, cls)

\* str.strip()
Strip(t) ==
    Slice(t, SkipWhile(t, 1, "ws"), LastIn(t, 1, Len(t), "notws"))

\* a comparison with the prefix in place of str.startswith
StartsWithErrorEquals(t) == t = <<ErrorPrefix>>

\* str.startswith("ERROR_")
StartsWithError(t) == Len(t) > 0 /\ t[1] = ErrorPrefix

\* re.sub(r'^\d+\.\s*', '', text, flags=re.MULTILINE)
RECURSIVE Denumber(_, _)
Denumber(t, p) ==
    IF p > Len(t) THEN << >>
    ELSE LET lineStart == (p = 1) \/ (t[p - 1] = NL)
             d == SkipWhile(t, p, "digit")
             hit == lineStart /\ d > p /\ d <= Len(t) /\ t[d] = T(".")
         IN  IF hit THEN Denumber(t, SkipWhile(t, d + 1, "ws"))
             ELSE <<t[p]>> \o Denumber(t, p + 1)

\* int(s_no) for a run of digit tokens: -1 when int() raises ValueError
\* (more than MaxStrDigits digits), else the decimal value
DigitVal(c) == CASE c.k = "0" -> 0 [] c.k = "1" -> 1 [] c.k = "2" -> 2
                 [] c.k = "9" -> 9
RECURSIVE IntVal(_, _, _)
IntVal(ds, i, acc) ==
    IF ds = << >> THEN acc
    ELSE IF i > Head(ds).n THEN IntVal(Tail(ds), 1, acc)
    ELSE IntVal(ds, i + 1, acc * 10 + DigitVal(Head(ds)))
IntOf(ds) == IF TextLen(ds) > MaxStrDigits THEN -1 ELSE IntVal(ds, 1, 0)

\* ------------------------------------------------------------------------
\* parse_comprehensive_test_cases, strict pattern (one match attempt at p)
\*   S\.No:\s*(\d+)\s*\n.*?TestCasesDescription:\s*(.*?)\n.*?StepAction:
\*   \s*(.*?)(?=ExpectedResult:|$).*?ExpectedResult:\s*(.*?)(?=S\.No:|$)
\* with re.DOTALL | re.IGNORECASE.  The lazy groups and the backtracking
\* of the engine reduce to first-occurrence searches:
\*   - the digits are the maximal run after the blanks that follow S.No:,
\*     and the blanks after them must hold a newline;
\*   - the description label is the first one after that;
\*   - group 2 runs from the first non-blank after the label to the first
\*     newline, if a StepAction: and then an ExpectedResult: follow it;
\*     otherwise \s* gives blanks back and group 2 is empty, ending at
\*     the last newline of the blanks after the label;
\*   - group 3 runs to the first ExpectedResult: after StepAction:;
\*   - group 4 runs to the next S.No: or the end of the text.
\* ------------------------------------------------------------------------
ChainAfter(t, n) ==
    n # 0 /\ FirstIn(t, n + 1, "StepI") # 0
          /\ FirstIn(t, FirstIn(t, n + 1, "StepI") + 1, "ResI") # 0

NoMatch == [ok |-> FALSE]

OrEnd(t, e) == IF e = 0 THEN Len(t) + 1 ELSE e

\* Each operator below matches one piece of the pattern, given the positions
\* the pieces before it have fixed, and hands on to the next.
\*   (?=S\.No:|$): s is the next S.No:, 0 when the text ends first
StrictMatch(t, s_no, description, step_actions, c, s) ==
    [ok |-> TRUE, s_no |-> s_no, description |-> description,
     step_actions |-> step_actions,
     expected_results |-> Slice(t, c, OrEnd(t, s) - 1),
     end |-> OrEnd(t, s)]

\*   ExpectedResult:\s*(.*?): er is the label, group 4 starts at c
StrictResult(t, s_no, description, step_actions, c) ==
    StrictMatch(t, s_no, description, step_actions, c, FirstIn(t, c, "SNoI"))

\*   (.*?)(?=ExpectedResult:|$).*?: group 3 starts at b
StrictLabelResult(t, s_no, description, b, er) ==
    StrictResult(t, s_no, description, Slice(t, b, er - 1),
                 SkipWhile(t, er + 1, "ws"))

StrictSteps(t, s_no, description, b) ==
    StrictLabelResult(t, s_no, description, b, FirstIn(t, b, "ResI"))

\*   \n.*?StepAction:\s*: sa is the label
StrictLabelStep(t, s_no, description, sa) ==
    StrictSteps(t, s_no, description, SkipWhile(t, sa + 1, "ws"))

\*   (.*?)\n: group 2 starts at a; na is the first newline from a on, back
\*   the last newline of the blanks before a
StrictLine(t, s_no, a, na, back) ==
    IF ChainAfter(t, na)
    THEN StrictLabelStep(t, s_no, Slice(t, a, na - 1), FirstIn(t, na + 1, "StepI"))
    ELSE IF ChainAfter(t, back)
    THEN StrictLabelStep(t, s_no, << >>, FirstIn(t, back + 1, "StepI"))
    ELSE NoMatch

StrictDescription(t, s_no, tcd, a) ==
    StrictLine(t, s_no, a, FirstIn(t, a, "nl"), LastIn(t, tcd + 1, a - 1, "nl"))

\*   \s*\n.*?TestCasesDescription:\s*: the blanks d1..w2-1, the label tcd
StrictLabelDescription(t, d0, d1, w2, tcd) ==
    IF d1 = d0 \/ LastIn(t, d1, w2 - 1, "nl") = 0 \/ tcd = 0 THEN NoMatch
    ELSE StrictDescription(t, Slice(t, d0, d1 - 1), tcd, SkipWhile(t, tcd + 1, "ws"))

StrictNewline(t, d0, d1, w2) ==
    StrictLabelDescription(t, d0, d1, w2, FirstIn(t, w2, "DescI"))

\*   (\d+): the digits d0..d1-1
StrictDigits(t, d0, d1) == StrictNewline(t, d0, d1, SkipWhile(t, d1, "ws"))

StrictNumber(t, d0) == StrictDigits(t, d0, SkipWhile(t, d0, "digit"))

\*   S\.No:\s*
StrictMatchAt(t, p) ==
    IF p > Len(t) \/ ~Is("SNoI", t[p]) THEN NoMatch
    ELSE StrictNumber(t, SkipWhile(t, p + 1, "ws"))

\* re.findall: the non-overlapping matches, scanning from the left
RECURSIVE FindAll(_, _)
FindNext(t, p, m) ==
    IF m.ok THEN <<m>> \o FindAll(t, m.end) ELSE FindAll(t, p + 1)
FindAll(t, p) ==
    IF p > Len(t) THEN << >> ELSE FindNext(t, p, StrictMatchAt(t, p))

\* the dictionary appended for one test case
Record(user_story_id, title, s_no, description, step_actions, expected_results) ==
    [usid |-> user_story_id, title |-> title, sno |-> s_no,
     desc |-> description, step |-> step_actions, result |-> expected_results]

\* the loop over the matches of the strict pattern; exc names the exception
\* that ended it (int(s_no) raises ValueError), None when it ran to its end
RECURSIVE StrictLoop(_, _, _, _)
StrictLoop(ms, user_story_id, title, acc) ==
    IF ms = << >> THEN [recs |-> acc, exc |-> None]
    ELSE LET m == Head(ms)
             v == IntOf(m.s_no)
         IN  IF v < 0 THEN [recs |-> acc, exc |-> "ValueError"]
             ELSE StrictLoop(Tail(ms), user_story_id, title,
                      Append(acc, Record(user_story_id, title, v,
                                         Strip(m.description),
                                         Denumber(Strip(m.step_actions), 1),
                                         Denumber(Strip(m.expected_results), 1))))

\* ------------------------------------------------------------------------
\* parse_comprehensive_test_cases, block-split fallback
\* ------------------------------------------------------------------------
\* a match of \n\s*S\.No:\s*\d+ starting at p: the position after it, else 0
DelimAt(t, p) ==
    IF p > Len(t) \/ t[p] # NL THEN 0
    ELSE LET q == SkipWhile(t, p + 1, "ws")
             r == SkipWhile(t, q + 1, "ws")
             d == SkipWhile(t, r, "digit")
         IN  IF q <= Len(t) /\ Is("SNo", t[q]) /\ d > r THEN d ELSE 0

\* re.split(r'\n\s*S\.No:\s*\d+', text)
RECURSIVE SplitBlocks(_, _, _)
SplitBlocks(t, p, s) ==
    IF p > Len(t) THEN <<Slice(t, s, Len(t))>>
    ELSE LET e == DelimAt(t, p)
         IN  IF e # 0 THEN <<Slice(t, s, p - 1)>> \o SplitBlocks(t, e, e)
             ELSE SplitBlocks(t, p + 1, s)

\* smallest q >= p where the lookahead \n\s*S\.No: holds, 0 when none
RECURSIVE FirstNlSNo(_, _)
FirstNlSNo(t, p) ==
    IF p > Len(t) THEN 0
    ELSE LET q == SkipWhile(t, p + 1, "ws")
         IN  IF t[p] = NL /\ q <= Len(t) /\ Is("SNo", t[q]) THEN p
             ELSE FirstNlSNo(t, p + 1)

\* TestCasesDescription:\s*(.*?)(?=\n|StepAction:|$)
BlockDescription(block, i, title) ==
    LET l == FirstIn(block, 1, "Desc")
        a == SkipWhile(block, l + 1, "ws")
    IN  IF l = 0 THEN <<T("Test case "), T(ToString(i)), T(" for ")>> \o title
        ELSE Strip(Slice(block, a, OrEnd(block, FirstIn(block, a, "nlStep")) - 1))

\* StepAction:\s*(.*?)(?=ExpectedResult:|$)
BlockStepActions(block) ==
    LET l == FirstIn(block, 1, "Step")
        a == SkipWhile(block, l + 1, "ws")
    IN  IF l = 0 THEN <<T("No step actions specified")>>
        ELSE Strip(Slice(block, a, OrEnd(block, FirstIn(block, a, "Res")) - 1))

\* ExpectedResult:\s*(.*?)(?=\n\s*S\.No:|$)
BlockExpectedResults(block) ==
    LET l == FirstIn(block, 1, "Res")
        a == SkipWhile(block, l + 1, "ws")
    IN  IF l = 0 THEN <<T("Expected results not specified")>>
        ELSE Strip(Slice(block, a, OrEnd(block, FirstNlSNo(block, a)) - 1))

\* the loop over enumerate(blocks): block 0 and blank blocks are skipped
RECURSIVE BlockLoop(_, _, _, _, _)
BlockLoop(blocks, i, user_story_id, title, acc) ==
    IF i >= Len(blocks) THEN acc
    ELSE LET block == blocks[i + 1]
         IN  IF Strip(block) = << >> \/ i = 0
             THEN BlockLoop(blocks, i + 1, user_story_id, title, acc)
             ELSE BlockLoop(blocks, i + 1, user_story_id, title,
                      Append(acc, Record(user_story_id, title, i,
                                         BlockDescription(block, i, title),
                                         BlockStepActions(block),
                                         BlockExpectedResults(block))))

\* ------------------------------------------------------------------------
\* parse_comprehensive_test_cases
\* ------------------------------------------------------------------------
\* text[:k]
RECURSIVE TakeChars(_, _)
TakeChars(t, k) ==
    IF t = << >> \/ k = 0 THEN << >>
    ELSE IF Head(t).n <= k THEN <<Head(t)>> \o TakeChars(Tail(t), k - Head(t).n)
    ELSE <<Run(Head(t).k, k)>>

TruncateLimit == 1000

ErrorRecord(user_story_id, title) ==
    Record(user_story_id, title, 1,
           <<T("Test case generation failed for ")>> \o title,
           <<T("Manual test case creation required")>>,
           <<T("Test case should be created manually")>>)

BlobRecord(test_cases_content, user_story_id, title) ==
    Record(user_story_id, title, 1,
           <<T("Comprehensive test for ")>> \o title,
           IF TextLen(test_cases_content) > TruncateLimit
           THEN TakeChars(test_cases_content, TruncateLimit) \o <<T("...")>>
           ELSE test_cases_content,
           <<T("All test steps should execute successfully as per acceptance criteria")>>)

DefaultRecord(user_story_id, title) ==
    Record(user_story_id, title, 1,
           <<T("Default test case for ")>> \o title,
           <<T("Test the functionality described in: ")>> \o title,
           <<T("Functionality should work as per acceptance criteria")>>)

\* "if not parsed_test_cases" after the strict loop: the block split
OrBlockSplit(strict, test_cases_content, user_story_id, title) ==
    IF strict.exc # None \/ strict.recs # << >> THEN strict
    ELSE [recs |-> BlockLoop(SplitBlocks(test_cases_content, 1, 1), 0,
                             user_story_id, title, << >>),
          exc |-> None]

\* the body of the try block: the strict pattern, then the block split
ParseTry(test_cases_content, user_story_id, title) ==
    OrBlockSplit(StrictLoop(FindAll(test_cases_content, 1), user_story_id, title, << >>),
                 test_cases_content, user_story_id, title)

\* an except clause that names another exception class
ParseCatchesOther(exc) == exc \in {"KeyError"}

\* "except Exception": the exception classes the handler catches
ParseCatches(exc) == exc \in {"ValueError"}

\* "if not parsed_test_cases" at the end: the default record
OrDefault(parsed_test_cases, user_story_id, title) ==
    [ret |-> IF parsed_test_cases = << >>
             THEN <<DefaultRecord(user_story_id, title)>>
             ELSE parsed_test_cases,
     raised |-> None]

\* the except clause, given what the try block did
ParseExcept(body, test_cases_content, user_story_id, title) ==
    IF body.exc = None THEN OrDefault(body.recs, user_story_id, title)
    ELSE IF ParseCatches(body.exc)
    THEN OrDefault(Append(body.recs,
                          BlobRecord(test_cases_content, user_story_id, title)),
                   user_story_id, title)
    ELSE [ret |-> << >>, raised |-> body.exc]

\* the result of the call: the list returned, or the exception raised
Parse(test_cases_content, user_story_id, title) ==
    IF StartsWithError(test_cases_content)
    THEN [ret |-> <<ErrorRecord(user_story_id, title)>>, raised |-> None]
    ELSE ParseExcept(ParseTry(test_cases_content, user_story_id, title),
                     test_cases_content, user_story_id, title)

\* ------------------------------------------------------------------------
\* generate_test_case_with_gemini_backend
\* ------------------------------------------------------------------------
Sentinel(name) == <<ErrorPrefix, T(name)>>

\* test_cases_content.split("Example (for clarity,")[0].strip()
BeforeExample(t) ==
    LET e == FirstIn(t, 1, "Example")
    IN  IF e = 0 THEN t ELSE Strip(Slice(t, 1, e - 1))

\* lines 289-305: the content handed to the parser for a model response
ExtractContent(response_text) ==
    LET text_response == Strip(response_text)
        test_cases_start == FirstIn(text_response, 1, "TestCases")
    IN  IF test_cases_start = 0
        THEN IF FirstIn(text_response, 1, "SNo") # 0
             THEN BeforeExample(text_response)
             ELSE Sentinel("GENERATION_FORMAT_ISSUE_TEST_CASES")
        ELSE BeforeExample(Strip(Slice(text_response, test_cases_start + 1,
                                       Len(text_response))))

\* What one call of the model service does: it raises, or returns a text
ModelRaises == [raises |-> TRUE, text |-> << >>]
ModelReturns(t) == [raises |-> FALSE, text |-> t]

\* the function without the try block around the call of the model
GenerateTestCaseNoTry(available, key_set, outcome) ==
    IF ~available \/ ~key_set
    THEN [content |-> Sentinel("API_NOT_AVAILABLE_TEST_CASES"), exc |-> None]
    ELSE IF outcome.raises
    THEN [content |-> << >>, exc |-> "Exception"]
    ELSE [content |-> ExtractContent(outcome.text), exc |-> None]

\* the value returned for one story, [content, exc]: exc names an exception
\* leaving the function, None when it returns
GenerateTestCase(available, key_set, outcome) ==
    IF ~available \/ ~key_set
    THEN [content |-> Sentinel("API_NOT_AVAILABLE_TEST_CASES"), exc |-> None]
    ELSE IF outcome.raises
    THEN [content |-> Sentinel("API_CALL_FAILED_TEST_CASES"), exc |-> None]
    ELSE [content |-> ExtractContent(outcome.text), exc |-> None]

\* the number of calls of model.generate_content made for one story
ModelCallsPerStory(available, key_set) == IF available /\ key_set THEN 1 ELSE 0

\* ------------------------------------------------------------------------
\* State
\* ------------------------------------------------------------------------
VARIABLES
    user_story_input_file_path,      \* global, None or a file
    generated_test_cases_file_path,  \* global, None or the directory holding
                                     \* Comprehensive_Test_Cases.xlsx
    current_output_root_dir,         \* global
    gemini_api_available,            \* global flag
    button,                          \* state of each button: TRUE is tk.NORMAL
    progress,                        \* progress_bar['value'], a fraction
    disk,                            \* per directory: the test-case file
    worker,                          \* the threads started by the handlers
    tc_done,                         \* history: a phase-1 run has succeeded
    p_in, p_out,                     \* argument and result of a parser call
    c_in, c_out,                     \* argument and result of a normalizer call
    df_test_cases,                   \* the rows read from the test-case file
    row_index,                       \* rows the aggregation loop has done
    scenarios_data,                  \* the dictionary the loop fills
    generated_feature_content,       \* the feature text
    all_unique_gherkin_steps_for_llm_context,  \* the step vocabulary
    feature_file,                    \* feature_file.feature on disk
    synthesis,                       \* where the feature synthesis stands
    retry                            \* a call of retry_api_call

vars == <<user_story_input_file_path, generated_test_cases_file_path,
          current_output_root_dir, gemini_api_available, button,
          progress, disk, worker, tc_done, p_in, p_out,
          c_in, c_out, df_test_cases, row_index, scenarios_data,
          generated_feature_content, all_unique_gherkin_steps_for_llm_context,
          feature_file, synthesis, retry>>

gui_vars == <<user_story_input_file_path, generated_test_cases_file_path,
              current_output_root_dir, button, progress>>
agg_vars == <<c_in, c_out, df_test_cases, row_index, scenarios_data>>
feat_vars == <<generated_feature_content, all_unique_gherkin_steps_for_llm_context,
               feature_file, synthesis>>
pure_vars == <<p_in, p_out, agg_vars, feat_vars, retry>>

\* Bounds of the pipeline model
MaxStories == 2
MaxWorkers == 2

\* the input files the user can select
Files == {"stories.xlsx", "other.xlsx"}
DEFAULT_OUTPUT_ROOT_DIR == "~/GeneratedBDDFiles"
Dirs == {DEFAULT_OUTPUT_ROOT_DIR}
Slots == 1..MaxWorkers

\* progress values are fractions num/den, compared exactly
Frac(a, b) == IF a % b = 0 THEN [num |-> a \div b, den |-> 1]
              ELSE [num |-> a, den |-> b]
Whole(a) == Frac(a, 1)
Leq(x, y) == x.num * y.den <= y.num * x.den

\* os.path.exists is false for NoFile; input_file_path is the input file
\* the records of the test-case file were generated for
NoFile == [exists |-> FALSE, any_desc |-> FALSE, input_file_path |-> None]
EarlierSession == "a file of an earlier session"

Idle == [pc |-> "idle", kind |-> None, out_dir |-> None,
         n |-> -1, i |-> 0, recs |-> << >>, any_desc |-> FALSE,
         tc_file |-> None, attempts |-> 0, vocab |-> None, fin |-> 0,
         caught |-> None, uncaught |-> None, last |-> Whole(0),
         report |-> None, input_file_path |-> None]

Active(w) == worker[w].pc # "idle"
AnyActive == \E w \in Slots : Active(w)

\* the buttons the pipeline handlers enable and disable
Buttons == {"generate_test_cases", "generate_bdd", "select_acceptance",
            "clear", "change_dir"}

\* lines 1319-1320 and 1359-1366: the state when the main loop starts.  The
\* output directory may hold a test-case file written by an earlier session.
PipeInit ==
    /\ user_story_input_file_path = None
    /\ generated_test_cases_file_path = None
    /\ current_output_root_dir = DEFAULT_OUTPUT_ROOT_DIR
    /\ gemini_api_available \in BOOLEAN
    /\ button = [b \in Buttons |-> b # "generate_bdd"]
    /\ progress = Whole(0)
    /\ disk \in [Dirs -> {NoFile, [exists |-> TRUE, any_desc |-> TRUE,
                                  input_file_path |-> EarlierSession]}]
    /\ worker = [w \in Slots |-> Idle]
    /\ tc_done = FALSE

NoInput == [text |-> << >>, usid |-> 0, title |-> << >>]
NotCalled == [ret |-> << >>, raised |-> "not called"]
\* scenarios_data = {}
EmptyDict == [k \in {} |-> 0]
NotCleaned == [called |-> FALSE, ret |-> << >>]
AggIdle ==
    /\ c_in = << >>
    /\ c_out = NotCleaned
    /\ df_test_cases = << >>
    /\ row_index = 0
    /\ scenarios_data = EmptyDict
\* lines 509 and 585: the vocabulary and the feature text before synthesis
NoFeatureFile == [written |-> FALSE, text |-> << >>]
NotSynthesized == [pc |-> "before", model |-> None, local |-> FALSE, exc |-> None]
FeatIdle ==
    /\ generated_feature_content = << >>
    /\ all_unique_gherkin_steps_for_llm_context = {}
    /\ feature_file = NoFeatureFile
    /\ synthesis = NotSynthesized
\* retry_api_call has not been called
NoRetry == [pc |-> "idle", max_retries |-> 0, attempt |-> 0, calls |-> << >>,
            sleeps |-> << >>, ret |-> None, raised |-> None]
PureIdle == p_in = NoInput /\ p_out = NotCalled /\ AggIdle /\ FeatIdle /\ retry = NoRetry

Init == PipeInit /\ PureIdle

\* ------------------------------------------------------------------------
\* Calls of parse_comprehensive_test_cases on its own
\* ------------------------------------------------------------------------
Block(num, description, steps, results) ==
    <<T("S.No:"), SP>> \o num \o <<NL, T("TestCasesDescription:"), SP>> \o description
    \o <<NL, T("StepAction:"), NL>> \o steps
    \o <<NL, T("ExpectedResult:"), NL>> \o results

\* the pieces a response is made of: a well-formed block; a well-formed
\* block with two step lines; a block with an
\* empty description and numbered steps; a block with lower-case labels; a
\* marker with no labels; a marker with more digits than int() accepts; a
\* marker with no newline after its number; words; a long stretch of text;
\* a block with numbered steps and no result label
BlockForms ==
    { Block(<<T("1")>>, <<T("a")>>, <<T("a")>>, <<T("b")>>),
      Block(<<T("2")>>, <<T("b")>>, <<T("a"), NL, T("b")>>, <<T("a")>>),
      Block(<<T("2")>>, << >>,
            <<T("1"), T("."), SP, T("a"), NL, T("2"), T("."), SP, T("b")>>, <<T("b")>>),
      <<T("s.no:"), SP, T("1"), NL, T("testcasesdescription:"), SP, T("b"), NL,
        T("stepaction:"), SP, T("a"), NL, T("expectedresult:"), SP, T("b")>>,
      <<T("S.No:"), SP, T("1"), NL, T("a")>>,
      Block(<<Run("9", MaxStrDigits + 1)>>, <<T("a")>>, <<T("a")>>, <<T("b")>>),
      <<T("S.No:"), SP, T("1"), SP, T("TestCasesDescription:"), SP, T("a")>>,
      <<T("a"), SP, T("b")>>,
      <<Run("a", TruncateLimit + 1)>>,
      <<T("S.No:"), SP, T("1"), NL, T("TestCasesDescription:"), SP, T("b"), NL,
        T("StepAction:"), NL, T("1"), T("."), SP, T("a")>> }

\* the texts of at most n pieces, one per line
RECURSIVE TextsOf(_)
TextsOf(n) ==
    IF n = 0 THEN {<< >>}
    ELSE LET shorter == TextsOf(n - 1)
         IN  shorter \cup {(IF t = << >> THEN t ELSE t \o <<NL>>) \o b :
                               t \in shorter, b \in BlockForms}

\* what a text starts with: nothing, an empty line, an error sentinel
Preambles == {<< >>, <<NL>>, <<ErrorPrefix, T("API_CALL_FAILED_TEST_CASES"), NL>>}

\* the title column of a row: free text of any length
Titles == {<<T("Login")>>, <<T("Reset"), SP, T("password")>>,
           <<Run("T", TruncateLimit)>>}

ParseInputs ==
    {[text |-> pre \o t, usid |-> 7, title |-> title] :
        pre \in Preambles, t \in TextsOf(MaxBlocks), title \in Titles}

Called == p_out.raised # "not called"

ParseCall ==
    /\ ~Called
    /\ p_out' = Parse(p_in.text, p_in.usid, p_in.title)
    /\ UNCHANGED <<p_in, gui_vars, gemini_api_available, disk, worker, tc_done,
                   agg_vars, feat_vars, retry>>

InitParse ==
    /\ PipeInit
    /\ ~gemini_api_available
    /\ disk = [d \in Dirs |-> NoFile]
    /\ p_in \in ParseInputs
    /\ p_out = NotCalled
    /\ AggIdle /\ FeatIdle /\ retry = NoRetry

NextParse == ParseCall
SpecParse == InitParse /\ [][NextParse]_vars

\* C1: every call of parse_comprehensive_test_cases returns: no exception
\* reaches the caller, and the list returned holds at least one record.
ParseReturnsRecords ==
    Called => (p_out.raised = None /\ Len(p_out.ret) >= 1)

\* C1 witness: int() raised in the loop over the matches, and the call
\* still returned a list with a record
ParseCaughtWitness ==
    /\ Called
    /\ ParseTry(p_in.text, p_in.usid, p_in.title).exc = "ValueError"
    /\ p_out.raised = None
    /\ Len(p_out.ret) >= 1

\* C2: for a text that starts with "ERROR_" the call returns exactly one
\* record, numbered 1, whose description is the fixed sentence that ends
\* with the story title and whose step and result are the fixed sentences,
\* whatever follows the prefix.
ErrorSentinelOneRecord ==
    (Called /\ Len(p_in.text) > 0 /\ Head(p_in.text) = T("ERROR_")) =>
        /\ p_out.raised = None
        /\ Len(p_out.ret) = 1
        /\ p_out.ret[1].usid = p_in.usid
        /\ p_out.ret[1].title = p_in.title
        /\ p_out.ret[1].sno = 1
        /\ p_out.ret[1].desc = <<T("Test case generation failed for ")>> \o p_in.title
        /\ p_out.ret[1].step = <<T("Manual test case creation required")>>
        /\ p_out.ret[1].result = <<T("Test case should be created manually")>>

\* C2 witness: a sentinel followed by a well-formed block came back as the
\* one fail-soft record
ErrorSentinelWitness ==
    /\ Called
    /\ Len(p_in.text) > 0
    /\ Head(p_in.text) = T("ERROR_")
    /\ FindAll(p_in.text, 1) # << >>
    /\ Len(p_out.ret) = 1
    /\ p_out.ret[1].sno = 1

\* ------------------------------------------------------------------------
\* GUI handlers (main thread)
\* ------------------------------------------------------------------------
\* check_gemini_api_status, bound to "Refresh API Status" (never disabled):
\* the flag is set when the environment holds a key (set_api_key_gui stores
\* one there) and the model service lists its models with it
check_gemini_api_status(current_api_key, reachable) ==
    /\ gemini_api_available' = (current_api_key /\ reachable)
    /\ UNCHANGED <<gui_vars, disk, worker, tc_done, pure_vars>>

\* select_acceptance_file_gui with a file that passes validate_input_file
select_acceptance_file_gui(file_path) ==
    /\ button["select_acceptance"]
    /\ user_story_input_file_path' = file_path
    /\ UNCHANGED <<generated_test_cases_file_path, current_output_root_dir,
                   button, progress, gemini_api_available, disk, worker, tc_done, pure_vars>>

clear_fields_gui ==
    /\ button["clear"]
    /\ user_story_input_file_path' = None
    /\ generated_test_cases_file_path' = None
    /\ progress' = Whole(0)
    /\ button' = [button EXCEPT !["generate_bdd"] = FALSE]
    /\ UNCHANGED <<current_output_root_dir, gemini_api_available, disk, worker, tc_done, pure_vars>>

change_directory_gui(new_dir) ==
    /\ button["change_dir"]
    /\ current_output_root_dir' = new_dir
    /\ UNCHANGED <<user_story_input_file_path, generated_test_cases_file_path,
                   button, progress, gemini_api_available, disk, worker, tc_done, pure_vars>>

\* threading.Thread(target=...).start(): the thread takes the lowest free slot
FreeSlot == CHOOSE w \in Slots : ~Active(w) /\ \A v \in Slots : ~Active(v) => w <= v
Spawn(kind, pc, start_value) ==
    /\ \E w \in Slots : ~Active(w)
    /\ worker' = [worker EXCEPT ![FreeSlot] =
                     [Idle EXCEPT !.pc = pc, !.kind = kind, !.last = start_value]]

DisableAll == [b \in Buttons |-> FALSE]

start_test_case_generation_thread ==
    /\ button["generate_test_cases"]
    /\ user_story_input_file_path # None
    /\ button' = DisableAll
    /\ progress' = Whole(0)
    /\ Spawn("test_cases", "p1_read", Whole(0))
    /\ UNCHANGED <<user_story_input_file_path, generated_test_cases_file_path,
                   current_output_root_dir, gemini_api_available, disk, tc_done, pure_vars>>

start_bdd_generation_thread ==
    /\ button["generate_bdd"]
    /\ generated_test_cases_file_path # None
    /\ disk[generated_test_cases_file_path] # NoFile
    /\ button' = DisableAll
    /\ progress' = Whole(50)
    /\ Spawn("bdd", "p2_read", Whole(50))
    /\ UNCHANGED <<user_story_input_file_path, generated_test_cases_file_path,
                   current_output_root_dir, gemini_api_available, disk, tc_done, pure_vars>>

\* start_generation_thread is bound to no widget (lines 1359-1366); it is the
\* handler of the former single "Generate" button and is taken here as the
\* command of the button it disables first.
start_generation_thread ==
    /\ button["generate_test_cases"]
    /\ user_story_input_file_path # None
    /\ button' = DisableAll
    /\ progress' = Whole(0)
    /\ Spawn("all", "p1_read", Whole(0))
    /\ UNCHANGED <<user_story_input_file_path, generated_test_cases_file_path,
                   current_output_root_dir, gemini_api_available, disk, tc_done, pure_vars>>

\* ------------------------------------------------------------------------
\* Inputs of the pipeline: the rows of the table and the model's answers
\* ------------------------------------------------------------------------
StoryTitle(row) == <<T("Login")>>

\* the answers the model gives in the pipeline runs: a block after a
\* "Test Cases:" heading, a block with an empty description, a marker with
\* no labels, a marker with too many digits, text with no marker
ModelTexts ==
    { <<T("Test Cases:"), NL>> \o Block(<<T("1")>>, <<T("a")>>, <<T("a")>>, <<T("b")>>),
      Block(<<T("1")>>, << >>, <<T("a")>>, <<T("b")>>),
      <<T("S.No:"), SP, T("1"), NL, T("a")>>,
      Block(<<Run("9", MaxStrDigits + 1)>>, <<T("a")>>, <<T("a")>>, <<T("b")>>),
      <<T("a"), SP, T("b")>> }

ModelOutcomes == {ModelRaises} \cup {ModelReturns(t) : t \in ModelTexts}

\* ------------------------------------------------------------------------
\* The worker threads
\* ------------------------------------------------------------------------
\* an except clause that names one exception class
OuterCatchesValueError(exc) == exc \in {"ValueError"}

\* "except Exception" of run_test_case_generation_logic,
\* run_bdd_generation_logic and run_generation_logic
OuterCatches(exc) == exc \in {"TypeError", "OSError", "ValueError", "Exception"}

\* every entry point with the finally block of run_bdd_generation_logic
FinallyBlockAlike(kind) ==
    <<"generate_test_cases", "generate_bdd", "select_acceptance", "clear",
      "change_dir", "progress">>

\* a finally block that leaves "Clear Fields" as it is
FinallyBlockNoClear(kind) ==
    IF kind = "test_cases"
    THEN <<"generate_test_cases", "select_acceptance", "change_dir", "progress">>
    ELSE <<"generate_test_cases", "generate_bdd", "select_acceptance",
           "change_dir", "progress">>

\* the statements of the finally block of each entry point, in order
\* (open_folder_button and update_idletasks, which follow change_dir_button,
\* touch nothing a handler or a worker reads and are left out)
FinallyBlock(kind) ==
    IF kind = "test_cases"
    THEN <<"generate_test_cases", "select_acceptance", "clear", "change_dir",
           "progress">>
    ELSE <<"generate_test_cases", "generate_bdd", "select_acceptance", "clear",
           "change_dir", "progress">>

\* control reaches the finally block: the locals of the phases are dead
EnterFinally(w, caught, uncaught) ==
    [Idle EXCEPT !.pc = "finally", !.kind = w.kind, !.fin = 1, !.last = w.last,
                 !.caught = caught, !.uncaught = uncaught, !.report = w.report]

\* an exception leaves a phase and reaches the except clause of the entry point
Raise(w, exc) ==
    IF OuterCatches(exc) THEN EnterFinally(w, exc, None)
    ELSE EnterFinally(w, None, exc)

UsesPhase1(w) == worker[w].kind \in {"test_cases", "all"}

\* generate_test_cases_from_user_stories_backend returns: its locals are dead
Returned(w, generated_tc_file) ==
    [Idle EXCEPT !.pc = "after_p1", !.kind = w.kind, !.last = w.last,
                 !.tc_file = generated_tc_file]

\* lines 415-446: the arguments are read from the globals, the table is read
Phase1Read(w, outcome, total_stories) ==
    /\ worker[w].pc = "p1_read"
    /\ IF user_story_input_file_path = None
       THEN \* os.path.basename(None) raises TypeError before the try block
            /\ worker' = [worker EXCEPT ![w] = Raise(@, "TypeError")]
            /\ UNCHANGED progress
       ELSE /\ progress' = Whole(0)
            /\ worker' = [worker EXCEPT ![w] =
                  IF outcome = "ok"
                  THEN [@ EXCEPT !.pc = IF total_stories = 0 THEN "p1_save" ELSE "p1_story",
                                 !.out_dir = current_output_root_dir,
                                 !.input_file_path = user_story_input_file_path,
                                 !.n = total_stories, !.i = 0, !.last = Whole(0)]
                  ELSE Returned([@ EXCEPT !.last = Whole(0)], None)]
    /\ UNCHANGED <<user_story_input_file_path, generated_test_cases_file_path,
                   current_output_root_dir, button, gemini_api_available, disk, tc_done, pure_vars>>

\* lines 464-465: the content is parsed unless the call raised
StoryParsed(gen, row) ==
    [gen |-> gen, parsed |-> Parse(gen.content, row, StoryTitle(row))]

\* lines 462-465 for each answer of the model, flag and row.  The flag is
\* set only when the environment holds a key, and no handler removes the key.
StoryResult ==
    [outcome \in ModelOutcomes, available \in BOOLEAN, row \in 1..MaxStories |->
        StoryParsed(GenerateTestCase(available, TRUE, outcome), row)]

\* line 450: (index + 1) / total_stories * 50, with a scale of 100
Phase1ProgressWhole(index, total_stories) == Frac((index + 1) * 100, total_stories)

\* line 450: (index + 1) / total_stories * 50
Phase1Progress(index, total_stories) == Frac((index + 1) * 50, total_stories)

\* lines 462-468: what one iteration does with the result for its row
Iteration(me, row, value, story, failed) ==
    IF story.gen.exc # None THEN Raise([me EXCEPT !.last = value], story.gen.exc)
    ELSE IF story.parsed.raised # None
    THEN Raise([me EXCEPT !.last = value], story.parsed.raised)
    ELSE [me EXCEPT
            !.pc = IF row = me.n THEN "p1_save" ELSE "p1_story",
            !.i = row,
            !.recs = @ \o [k \in 1..Len(story.parsed.ret) |-> story.parsed.ret[k].usid],
            !.any_desc = @ \/ \E k \in 1..Len(story.parsed.ret) :
                                 Strip(story.parsed.ret[k].desc) # << >>,
            !.attempts = IF failed THEN ModelCallsPerStory(TRUE, TRUE) ELSE @,
            !.last = value]

\* lines 448-468: one iteration of the loop over the rows
Phase1Story(w, outcome) ==
    /\ worker[w].pc = "p1_story"
    /\ progress' = Phase1Progress(worker[w].i, worker[w].n)
    /\ worker' = [worker EXCEPT ![w] =
          Iteration(@, @.i + 1, Phase1Progress(@.i, @.n),
                    StoryResult[outcome, gemini_api_available, @.i + 1],
                    gemini_api_available /\ outcome.raises)]
    /\ UNCHANGED <<user_story_input_file_path, generated_test_cases_file_path,
                   current_output_root_dir, button, gemini_api_available, disk,
                   tc_done, pure_vars>>

\* lines 470-485: the records are written to the test-case file
Phase1Save(w, outcome) ==
    /\ worker[w].pc = "p1_save"
    /\ LET me == worker[w] IN
       CASE outcome = "makedirs raises" ->
              /\ worker' = [worker EXCEPT ![w] = Raise(me, "OSError")]
              /\ UNCHANGED <<generated_test_cases_file_path, disk, tc_done>>
         [] outcome = "to_excel raises" ->
              /\ generated_test_cases_file_path' = me.out_dir
              /\ worker' = [worker EXCEPT ![w] = Returned(me, None)]
              /\ UNCHANGED <<disk, tc_done>>
         [] outcome = "ok" ->
              /\ generated_test_cases_file_path' = me.out_dir
              /\ disk' = [disk EXCEPT ![me.out_dir] =
                             [exists |-> TRUE, any_desc |-> me.any_desc,
                              input_file_path |-> me.input_file_path]]
              /\ tc_done' = TRUE
              /\ worker' = [worker EXCEPT ![w] = Returned(me, me.out_dir)]
    /\ UNCHANGED <<user_story_input_file_path, current_output_root_dir, button,
                   progress, gemini_api_available, pure_vars>>

\* lines 1129-1148 and 1244-1256: what the entry point does with the value
\* phase 1 returned
AfterPhase1(w) ==
    /\ worker[w].pc = "after_p1"
    /\ UsesPhase1(w)
    /\ LET me == worker[w] IN
       IF me.tc_file = None
       THEN /\ worker' = [worker EXCEPT ![w] = EnterFinally(me, None, None)]
            /\ UNCHANGED <<generated_test_cases_file_path, button>>
       ELSE /\ generated_test_cases_file_path' = me.tc_file
            /\ IF me.kind = "test_cases"
               THEN /\ button' = [button EXCEPT !["generate_bdd"] = TRUE]
                    /\ worker' = [worker EXCEPT ![w] =
                                     EnterFinally(me, None, None)]
               ELSE /\ UNCHANGED button
                    /\ worker' = [worker EXCEPT ![w] = [me EXCEPT !.pc = "p2_read"]]
    /\ UNCHANGED <<user_story_input_file_path, current_output_root_dir, progress,
                   gemini_api_available, disk, tc_done, pure_vars>>

\* lines 495-559: the test-case file is read and aggregated
Phase2Read(w, outcome) ==
    /\ worker[w].pc = "p2_read"
    /\ LET me == worker[w]
           test_case_file_path == IF me.kind = "all" THEN me.tc_file
                                  ELSE generated_test_cases_file_path
       IN  IF test_case_file_path = None
           THEN \* os.path.basename(None) raises TypeError before the try block
                /\ worker' = [worker EXCEPT ![w] = Raise(me, "TypeError")]
                /\ UNCHANGED progress
           ELSE IF disk[test_case_file_path] = NoFile \/ outcome = "read_excel raises"
           THEN /\ worker' = [worker EXCEPT ![w] =
                                 EnterFinally(me, None, None)]
                /\ UNCHANGED progress
           ELSE IF ~disk[test_case_file_path].any_desc
           THEN /\ worker' = [worker EXCEPT ![w] =
                                 EnterFinally(me, None, None)]
                /\ UNCHANGED progress
           ELSE /\ progress' = Whole(55)
                /\ worker' = [worker EXCEPT ![w] =
                                 [me EXCEPT !.pc = "p2_feature", !.last = Whole(55)]]
    /\ UNCHANGED <<user_story_input_file_path, generated_test_cases_file_path,
                   current_output_root_dir, button, gemini_api_available, disk, tc_done, pure_vars>>

\* lines 585-667: the feature text is made by the model or locally, and written.
\* A model answer may hold no line that starts with a Gherkin keyword.
Phase2Feature(w, model, write) ==
    /\ worker[w].pc = "p2_feature"
    /\ LET me == worker[w]
           by_model == gemini_api_available /\ model \in {"steps", "no steps"}
           vocab == IF by_model /\ model = "no steps" THEN "empty" ELSE "nonempty"
       IN  IF write = "raises"
           THEN /\ worker' = [worker EXCEPT ![w] = Raise(me, "OSError")]
                /\ UNCHANGED progress
           ELSE /\ progress' = Whole(60)
                /\ worker' = [worker EXCEPT ![w] =
                                 [me EXCEPT !.pc = "p2_emit", !.vocab = vocab,
                                            !.last = Whole(60)]]
    /\ UNCHANGED <<user_story_input_file_path, generated_test_cases_file_path,
                   current_output_root_dir, button, gemini_api_available, disk, tc_done, pure_vars>>

\* the texts status_label is given at lines 671, 955 and 957
StatusEmitting == "Phase 2: Generating multi-language automation files..."
StatusNotAvailable == "Gemini API not available. Only local feature file was generated."
StatusNoSteps == "No unique Gherkin steps collected. Skipping code generation."

\* lines 954-957: the text for a run that emits no code
SkipStatus(available) == IF ~available THEN StatusNotAvailable ELSE StatusNoSteps

\* lines 670-689 and 953-969: the decision to emit code.  report is the
\* text this decision gives status_label (the texts the emission of each
\* language gives it later are not kept); the first statement of the
\* finally block comes after line 968, which replaces it by "Ready."
Phase2Emit(w, makedirs) ==
    /\ worker[w].pc = "p2_emit"
    /\ LET me == worker[w] IN
       IF gemini_api_available /\ me.vocab = "nonempty"
       THEN IF makedirs = "raises"
            THEN /\ worker' = [worker EXCEPT ![w] =
                                  Raise([me EXCEPT !.report = StatusEmitting], "OSError")]
                 /\ UNCHANGED progress
            ELSE /\ progress' = Whole(65)
                 /\ worker' = [worker EXCEPT ![w] =
                                  [me EXCEPT !.pc = "p2_javascript", !.last = Whole(65),
                                             !.report = StatusEmitting]]
       ELSE /\ progress' = Whole(100)
            /\ worker' = [worker EXCEPT ![w] =
                  EnterFinally([me EXCEPT !.last = Whole(100),
                                          !.report = SkipStatus(gemini_api_available)],
                               None, None)]
    /\ UNCHANGED <<user_story_input_file_path, generated_test_cases_file_path,
                   current_output_root_dir, button, gemini_api_available, disk, tc_done, pure_vars>>

\* lines 810-934: the files of one language; any exception ends the emission
Phase2Language(w, calls) ==
    /\ worker[w].pc \in {"p2_javascript", "p2_java", "p2_python"}
    /\ LET me == worker[w]
           value == IF calls = "raise" THEN 100
                    ELSE CASE me.pc = "p2_javascript" -> 75
                           [] me.pc = "p2_java" -> 85
                           [] me.pc = "p2_python" -> 100
       IN  /\ progress' = Whole(value)
           /\ worker' = [worker EXCEPT ![w] =
                 IF calls = "raise"
                 THEN EnterFinally([me EXCEPT !.last = Whole(100)], None, None)
                 ELSE IF me.pc = "p2_python"
                 THEN EnterFinally([me EXCEPT !.last = Whole(100)], None, None)
                 ELSE [me EXCEPT !.pc = IF me.pc = "p2_javascript" THEN "p2_java"
                                        ELSE "p2_python",
                                 !.last = Whole(value)]]
    /\ UNCHANGED <<user_story_input_file_path, generated_test_cases_file_path,
                   current_output_root_dir, button, gemini_api_available, disk, tc_done, pure_vars>>

\* one statement of the finally block (lines 1153-1161, 1197-1206, 1261-1270);
\* the thread ends after the last one
Finally(w) ==
    /\ worker[w].pc = "finally"
    /\ LET me == worker[w]
           block == FinallyBlock(me.kind)
           stmt == block[me.fin]
       IN  /\ IF stmt = "progress"
              THEN progress' = Whole(0) /\ UNCHANGED button
              ELSE button' = [button EXCEPT ![stmt] = TRUE] /\ UNCHANGED progress
           /\ worker' = [worker EXCEPT ![w] =
                 IF me.fin = Len(block) THEN Idle
                 ELSE [me EXCEPT !.fin = @ + 1, !.last = Whole(0), !.caught = None,
                                 !.report = None]]
    /\ UNCHANGED <<user_story_input_file_path, generated_test_cases_file_path,
                   current_output_root_dir, gemini_api_available, disk, tc_done, pure_vars>>

\* ------------------------------------------------------------------------
\* Specifications
\* ------------------------------------------------------------------------
Handlers ==
    \/ \E current_api_key, reachable \in BOOLEAN :
           check_gemini_api_status(current_api_key, reachable)
    \/ \E f \in Files : select_acceptance_file_gui(f)
    \/ clear_fields_gui
    \/ \E d \in Dirs : change_directory_gui(d)
    \/ start_test_case_generation_thread
    \/ start_bdd_generation_thread

\* the next statement of the thread in slot w; every call it makes returns
\* or raises
Thread(w) ==
    \/ \E o \in {"ok", "missing columns", "FileNotFoundError", "Exception"},
          n \in 0..MaxStories : Phase1Read(w, o, n)
    \/ \E o \in ModelOutcomes : Phase1Story(w, o)
    \/ \E o \in {"ok", "makedirs raises", "to_excel raises"} : Phase1Save(w, o)
    \/ AfterPhase1(w)
    \/ \E o \in {"ok", "read_excel raises"} : Phase2Read(w, o)
    \/ \E m \in {"steps", "no steps", "raises"}, wr \in {"ok", "raises"} :
          Phase2Feature(w, m, wr)
    \/ \E o \in {"ok", "raises"} : Phase2Emit(w, o)
    \/ \E o \in {"ok", "raise"} : Phase2Language(w, o)
    \/ Finally(w)

Threads == \E w \in Slots : Thread(w)

\* the program as wired: the two generation buttons
Next == Handlers \/ Threads
Spec == Init /\ [][Next]_vars

\* the program with the combined entry point start_generation_thread as well
NextAll == Next \/ start_generation_thread
SpecAll == Init /\ [][NextAll]_vars

\* the same program when every thread that has been started gets to run: a
\* thread whose next statement can be executed executes it in the end
SpecAllFair == SpecAll /\ \A w \in Slots : WF_vars(Thread(w))

\* ------------------------------------------------------------------------
\* Properties
\* ------------------------------------------------------------------------
InPhase1(w) == worker[w].pc \in {"p1_read", "p1_story", "p1_save"}
InPhase2(w) == worker[w].pc \in {"p2_read", "p2_feature", "p2_emit",
                                 "p2_javascript", "p2_java", "p2_python"}
Phase2Wrote(w) == worker[w].pc \in {"p2_feature", "p2_emit", "p2_javascript",
                                    "p2_java", "p2_python"}

\* the records of the stories 1..i are there, in table order
Covered(me) ==
    /\ \A row \in 1..me.i : \E k \in 1..Len(me.recs) : me.recs[k] = row
    /\ \A k \in 1..Len(me.recs) : me.recs[k] \in 1..me.i
    /\ \A j, k \in 1..Len(me.recs) : j <= k => me.recs[j] <= me.recs[k]

\* C3: the loop of phase 1 goes through every row of the table in order,
\* whatever the model does for a row: an iteration always ends with the
\* next row or with the save step, never in the except clause of the entry
\* point, and the records gathered hold at least one record for every row
\* processed so far; at the save step every row has been processed.
Phase1CoversEveryStory ==
    /\ [](\A w \in Slots :
            worker[w].pc \in {"p1_story", "p1_save"} =>
                /\ Covered(worker[w])
                /\ worker[w].pc = "p1_save" => worker[w].i = worker[w].n)
    /\ [][\A w \in Slots :
            (worker[w].pc = "p1_story" /\ worker'[w] # worker[w]) =>
                /\ worker'[w].pc \in {"p1_story", "p1_save"}
                /\ worker'[w].i = worker[w].i + 1
                /\ worker'[w].n = worker[w].n]_vars

\* C3 witness: every row is processed and has its record although a call of
\* the model failed
Phase1FailSoftWitness ==
    \E w \in Slots :
        /\ worker[w].pc = "p1_save"
        /\ worker[w].n = MaxStories
        /\ worker[w].attempts > 0
        /\ Covered(worker[w])
        /\ worker[w].i = worker[w].n

\* C4: a story whose model call failed has had MAX_RETRIES calls of the
\* model before the fail-soft record is made for it.
RetriedBeforeFailSoft ==
    \A w \in Slots :
        (worker[w].pc \in {"p1_story", "p1_save"} /\ worker[w].attempts > 0) =>
            worker[w].attempts = MAX_RETRIES

\* C5 as claimed: while a run is alive no step of a worker lowers the
\* progress value.
ProgressNeverDecreases ==
    [][(\E w \in Slots : Active(w) /\ worker'[w] # worker[w]) =>
            Leq(progress, progress')]_vars

\* C5 as amended: the progress value stays within [0,100]; the values a
\* run writes are non-decreasing from its start until it enters the finally
\* block of its entry point; the values written in phase 1 are at most 50
\* and those written in phase 2 at least 50; the last statement of the
\* finally block sets the value back to 0.
ProgressWithinPhases ==
    /\ [](/\ Leq(Whole(0), progress) /\ Leq(progress, Whole(100))
          /\ \A w \in Slots :
                /\ InPhase1(w) => Leq(worker[w].last, Whole(50))
                /\ Phase2Wrote(w) => Leq(Whole(50), worker[w].last))
    /\ [][\A w \in Slots :
            /\ (Active(w) /\ worker[w].pc # "finally" /\ worker'[w] # worker[w]) =>
                    /\ Leq(worker[w].last, worker'[w].last)
                    /\ progress' # progress => progress' = worker'[w].last
            /\ (worker[w].pc = "finally" /\ worker'[w] = Idle) =>
                    progress' = Whole(0)]_vars

\* C5 witness: a combined run has written 50 at the end of phase 1 and a
\* larger value in phase 2
ProgressWitness ==
    \E w \in Slots :
        /\ worker[w].kind = "all"
        /\ worker[w].pc = "p2_java"
        /\ worker[w].last = Whole(75)
        /\ progress = Whole(75)

OneWorkerInAPhase ==
    Cardinality({w \in Slots : InPhase1(w) \/ InPhase2(w)}) <= 1

\* C8: while a run is in progress no step of the main thread changes the
\* model-availability flag, which the run reads for every story and twice
\* in phase 2.
FlagStableDuringRun ==
    [][AnyActive => gemini_api_available' = gemini_api_available]_vars

\* C10: no exception leaves an entry point of a worker thread.
NoExceptionEscapes ==
    \A w \in Slots : worker[w].uncaught = None

\* C10 witness: os.makedirs raised outside the try blocks of a phase and
\* the except clause of the entry point caught it
CaughtWitness ==
    \E w \in Slots :
        /\ worker[w].pc = "finally"
        /\ worker[w].caught = "OSError"
        /\ worker[w].uncaught = None

\* ------------------------------------------------------------------------
\* Properties of parse_comprehensive_test_cases: counts, numbers, fields
\* ------------------------------------------------------------------------
\* blocks in the format the prompt prescribes (lines 215-232): the marker
\* with its number on a line, the description on the label's line, the
\* step lines and the result lines under their labels
WellFormed ==
    { [num |-> <<T("1")>>, description |-> <<T("a")>>,
       steps |-> <<T("a")>>, results |-> <<T("b")>>],
      [num |-> <<T("2")>>, description |-> <<T("b")>>,
       steps |-> <<T("a"), NL, T("b")>>, results |-> <<T("a")>>],
      [num |-> <<Run("9", MaxStrDigits + 1)>>, description |-> <<T("a")>>,
       steps |-> <<T("a")>>, results |-> <<T("b")>> ] }

WellFormedSeqs == UNION {[1..n -> WellFormed] : n \in 1..MaxBlocks}

\* the blocks of fs, one after the other, a newline between two
RECURSIVE JoinBlocks(_)
JoinBlocks(fs) ==
    IF Len(fs) = 1 THEN Block(fs[1].num, fs[1].description, fs[1].steps, fs[1].results)
    ELSE Block(fs[1].num, fs[1].description, fs[1].steps, fs[1].results)
         \o <<NL>> \o JoinBlocks(Tail(fs))

\* a text that holds no label and no marker, in either case
Unstructured(t) ==
    \A k \in 1..Len(t) :
        ~(\/ Is("SNoI", t[k]) \/ Is("DescI", t[k])
          \/ Is("StepI", t[k]) \/ Is("ResI", t[k]))

\* C17: a text made of n >= 1 well-formed blocks, after nothing or an empty
\* line, comes back as exactly n records, the k-th holding the description,
\* the steps and the results of the k-th block.
OneRecordPerBlock ==
    Called =>
        \A fs \in WellFormedSeqs : \A pre \in {<< >>, <<NL>>} :
            p_in.text = pre \o JoinBlocks(fs) =>
                /\ Len(p_out.ret) = Len(fs)
                /\ \A k \in 1..Len(fs) :
                       /\ p_out.ret[k].desc = fs[k].description
                       /\ p_out.ret[k].step = fs[k].steps
                       /\ p_out.ret[k].result = fs[k].results

\* C18: the sequence numbers of the records of one call are positive and
\* differ from one another.
SequenceNumbersDistinct ==
    Called =>
        \A j, k \in 1..Len(p_out.ret) :
            /\ p_out.ret[k].sno > 0
            /\ j # k => p_out.ret[j].sno # p_out.ret[k].sno

\* C19: a text without a label or a marker, not a sentinel, comes back as
\* one record whose steps are at most TruncateLimit + 3 characters long,
\* whatever the length of the text and of the title.
UnstructuredBounded ==
    (Called /\ Unstructured(p_in.text) /\ ~StartsWithError(p_in.text)) =>
        /\ Len(p_out.ret) = 1
        /\ TextLen(p_out.ret[1].step) <= TruncateLimit + 3

\* C20: every record returned has a description that is not empty once
\* its blanks are trimmed.
DescriptionsNonEmpty ==
    Called => \A k \in 1..Len(p_out.ret) : Strip(p_out.ret[k].desc) # << >>

\* ------------------------------------------------------------------------
\* clean_step_text_for_gherkin.  The texts it is given here are made of
\* one-character tokens and of words that hold no blank, period or comma.
\* ------------------------------------------------------------------------
\* re.sub(r'\s+', ' ', text)
RECURSIVE CollapseWhitespace(_, _)
CollapseWhitespace(t, p) ==
    IF p > Len(t) THEN << >>
    ELSE IF Is("ws", t[p])
    THEN <<SP>> \o CollapseWhitespace(t, SkipWhile(t, p, "ws"))
    ELSE <<t[p]>> \o CollapseWhitespace(t, p + 1)

\* re.sub(r'\.\s*$', '', text): the match is the period that only blanks
\* follow, with those blanks
DropTrailingPeriod(t) ==
    LET q == LastIn(t, 1, Len(t), "notws")
    IN  IF q > 0 /\ t[q] = T(".") THEN Slice(t, 1, q - 1) ELSE t

\* text.replace(',', '')
RemoveCommas(t) == SelectSeq(t, LAMBDA c : c # T(","))

clean_step_text_for_gherkin(text) ==
    RemoveCommas(DropTrailingPeriod(CollapseWhitespace(Strip(text), 1)))

\* ------------------------------------------------------------------------
\* Calls of clean_step_text_for_gherkin on its own
\* ------------------------------------------------------------------------
MaxLineLen == 4

CleanAlphabet == {T("a"), SP, NL, T("."), T(",")}
CleanInputs == UNION {[1..n -> CleanAlphabet] : n \in 0..MaxLineLen}

\* the window is idle and no file has been written
PipeQuiet ==
    /\ PipeInit
    /\ ~gemini_api_available
    /\ disk = [d \in Dirs |-> NoFile]

CleanCall ==
    /\ ~c_out.called
    /\ c_out' = [called |-> TRUE, ret |-> clean_step_text_for_gherkin(c_in)]
    /\ UNCHANGED <<c_in, df_test_cases, row_index, scenarios_data, p_in, p_out,
                   gui_vars, gemini_api_available, disk, worker, tc_done,
                   feat_vars, retry>>

InitClean ==
    /\ PipeQuiet
    /\ p_in = NoInput /\ p_out = NotCalled
    /\ c_in \in CleanInputs
    /\ c_out = NotCleaned
    /\ df_test_cases = << >> /\ row_index = 0 /\ scenarios_data = EmptyDict
    /\ FeatIdle /\ retry = NoRetry

NextClean == CleanCall
SpecClean == InitClean /\ [][NextClean]_vars

\* C16: cleaning a cleaned text changes nothing.
CleanIdempotent ==
    c_out.called => clean_step_text_for_gherkin(c_out.ret) = c_out.ret

\* ------------------------------------------------------------------------
\* generate_bdd_files_backend, lines 508-550: the aggregation loop
\* ------------------------------------------------------------------------
\* a cell of the table read from the file: a text, or NaN for an empty cell
NaN == [na |-> TRUE, text |-> << >>]
Cell(t) == [na |-> FALSE, text |-> t]

\* a test that takes a missing cell only
IsMissingNaN(cell) == cell.na

\* line 515: pd.isna(x) or str(x).strip() == ""
IsMissing(cell) == cell.na \/ Strip(cell.text) = << >>

\* lines 522-523: "" if pd.isna(x) else str(x).strip()
Content(cell) == IF cell.na THEN << >> ELSE Strip(cell.text)

\* a test that takes any content that is not empty
UsableNonEmpty(content) == content # << >>

\* lines 533 and 544: content and not content.startswith("ERROR_")
Usable(content) == content # << >> /\ ~StartsWithError(content)

\* content.split('\n')
RECURSIVE SplitLines(_)
SplitLines(t) ==
    LET q == FirstIn(t, 1, "nl")
    IN  IF q = 0 THEN <<t>>
        ELSE <<Slice(t, 1, q - 1)>> \o SplitLines(Slice(t, q + 1, Len(t)))

\* [line.strip() for line in lines if line.strip()]
RECURSIVE StripLines(_)
StripLines(lines) ==
    IF lines = << >> THEN << >>
    ELSE (IF Strip(Head(lines)) = << >> THEN << >> ELSE <<Strip(Head(lines))>>)
         \o StripLines(Tail(lines))

NonEmptyLines(content) == StripLines(SplitLines(content))

\* lines 536-539: the cleaned lines that are not empty, in order
RECURSIVE CleanedSteps(_)
CleanedSteps(step_lines) ==
    IF step_lines = << >> THEN << >>
    ELSE (IF clean_step_text_for_gherkin(Head(step_lines)) = << >> THEN << >>
          ELSE <<clean_step_text_for_gherkin(Head(step_lines))>>)
         \o CleanedSteps(Tail(step_lines))

\* a list that keeps the new steps only
ReplaceSteps(raw_action_steps, cleaned) == cleaned

\* a list that puts the new steps first
PrependSteps(raw_action_steps, cleaned) == cleaned \o raw_action_steps

\* line 539: raw_action_steps.append(cleaned_step), for each cleaned step
AppendSteps(raw_action_steps, cleaned) == raw_action_steps \o cleaned

\* lines 546-548: the last line of the content, cleaned
FinalResult(previous, result_lines) ==
    IF result_lines # << >>
    THEN clean_step_text_for_gherkin(result_lines[Len(result_lines)])
    ELSE previous

\* lines 526-530
NewEntry == [feature_name |-> "Application Functionality",
             raw_action_steps |-> << >>, final_expected_result |-> << >>]

\* lines 525-530: the entry of the title, made if it is not there
WithEntry(data, scenario_title) ==
    IF scenario_title \in DOMAIN data THEN data
    ELSE data @@ (scenario_title :> NewEntry)

\* lines 532-550 for the entry of the row's title
UpdatedEntry(entry, step_action_content, expected_result_content) ==
    [entry EXCEPT
        !.raw_action_steps =
            IF Usable(step_action_content)
            THEN AppendSteps(@, CleanedSteps(NonEmptyLines(step_action_content)))
            ELSE @,
        !.final_expected_result =
            IF Usable(expected_result_content)
            THEN FinalResult(@, NonEmptyLines(expected_result_content))
            ELSE @]

\* lines 519-550 for a row that has a title
Aggregated(data, scenario_title, row) ==
    [data EXCEPT ![scenario_title] =
        UpdatedEntry(@, Content(row.step), Content(row.result))]

\* one iteration of the loop, lines 511-550
AggregateRow(data, row) ==
    IF IsMissing(row.desc) THEN data
    ELSE Aggregated(WithEntry(data, Strip(row.desc.text)), Strip(row.desc.text), row)

\* the loop over the rows
RECURSIVE AggregateAll(_, _)
AggregateAll(rows, data) ==
    IF rows = << >> THEN data
    ELSE AggregateAll(Tail(rows), AggregateRow(data, Head(rows)))

\* ------------------------------------------------------------------------
\* The aggregation loop on its own
\* ------------------------------------------------------------------------
MaxRows == 2

\* the description column: empty, blank, a title, the title with blanks
\* around it, the title in lower case
DescCells == {NaN, Cell(<<SP>>), Cell(<<T("A")>>), Cell(<<SP, T("A"), SP>>),
              Cell(<<T("a")>>)}

\* the step and result columns of a row
FieldPairs ==
    { [step |-> Cell(<<T("x"), NL, SP, T("y"), T(".")>>), result |-> Cell(<<T("r")>>)],
      [step |-> NaN, result |-> Cell(<<T("r"), NL, T(".")>>)],
      [step |-> Cell(Sentinel("API_CALL_FAILED_TEST_CASES")),
       result |-> Cell(Sentinel("API_CALL_FAILED_TEST_CASES"))],
      [step |-> Cell(<<T("z"), NL, ErrorPrefix, T("X")>>), result |-> Cell(<<T("s"), NL, SP>>)],
      [step |-> Cell(<<T(","), NL, T("z")>>), result |-> NaN],
      [step |-> Cell(<<T("z")>>), result |-> Cell(<<T("s"), NL, ErrorPrefix, T("X")>>)] }

Rows == {[desc |-> d, step |-> f.step, result |-> f.result] :
            d \in DescCells, f \in FieldPairs}
RowSeqs == UNION {[1..n -> Rows] : n \in 0..MaxRows}

AggregateNext ==
    /\ row_index < Len(df_test_cases)
    /\ scenarios_data' = AggregateRow(scenarios_data, df_test_cases[row_index + 1])
    /\ row_index' = row_index + 1
    /\ UNCHANGED <<df_test_cases, c_in, c_out, p_in, p_out,
                   gui_vars, gemini_api_available, disk, worker, tc_done,
                   feat_vars, retry>>

InitAgg ==
    /\ PipeQuiet
    /\ p_in = NoInput /\ p_out = NotCalled
    /\ c_in = << >> /\ c_out = NotCleaned
    /\ FeatIdle /\ retry = NoRetry
    /\ df_test_cases \in RowSeqs
    /\ row_index = 0
    /\ scenarios_data = EmptyDict

NextAgg == AggregateNext
SpecAgg == InitAgg /\ [][NextAgg]_vars

\* the rows the loop has done
Done == SubSeq(df_test_cases, 1, row_index)

\* ------------------------------------------------------------------------
\* Properties of the aggregation loop
\* ------------------------------------------------------------------------
\* the key a row is filed under; << >> stands for a row that has none
KeyOf(row) == IF row.desc.na THEN << >> ELSE Strip(row.desc.text)

\* a field that is an error sentinel or empty
SentinelOrEmpty(cell) ==
    \/ cell.na
    \/ Strip(cell.text) = << >>
    \/ Head(Strip(cell.text)) = ErrorPrefix

\* the cleaned lines of a field that are not empty, none for a field that
\* is a sentinel or empty
LinesOf(cell) ==
    IF SentinelOrEmpty(cell) THEN << >>
    ELSE CleanedSteps(NonEmptyLines(Strip(cell.text)))

\* the step lines of the rows filed under key, in the order of the rows
RECURSIVE StepsFor(_, _)
StepsFor(key, rows) ==
    IF rows = << >> THEN << >>
    ELSE (IF KeyOf(Head(rows)) = key THEN LinesOf(Head(rows).step) ELSE << >>)
         \o StepsFor(key, Tail(rows))

IsPrefix(s, t) == Len(s) <= Len(t) /\ SubSeq(t, 1, Len(s)) = s

\* C11: the step list of every entry is the concatenation, in the order of
\* the rows, of the cleaned non-empty step lines of the rows whose trimmed
\* description is the entry's key (a field that is a sentinel or empty has
\* no lines); a row only appends: the list an entry had is a prefix of
\* the list it has after the row, and no entry goes away.
StepsAppendInOrder ==
    /\ [](\A key \in DOMAIN scenarios_data :
            scenarios_data[key].raw_action_steps = StepsFor(key, Done))
    /\ [][\A key \in DOMAIN scenarios_data :
            /\ key \in DOMAIN scenarios_data'
            /\ IsPrefix(scenarios_data[key].raw_action_steps,
                        scenarios_data'[key].raw_action_steps)]_vars

\* C11 witness: two rows whose descriptions differ only in the blanks around
\* them have both given steps to the one entry
StepsCollapseWitness ==
    /\ row_index = 2
    /\ df_test_cases[1].desc # df_test_cases[2].desc
    /\ LinesOf(df_test_cases[1].step) # << >>
    /\ LinesOf(df_test_cases[2].step) # << >>
    /\ LinesOf(df_test_cases[1].step) # LinesOf(df_test_cases[2].step)
    /\ DOMAIN scenarios_data = {KeyOf(df_test_cases[1])}
    /\ scenarios_data[KeyOf(df_test_cases[1])].raw_action_steps =
           LinesOf(df_test_cases[1].step) \o LinesOf(df_test_cases[2].step)

\* the last result line, non-empty once cleaned, of the rows filed under
\* key; previous when there is none
RECURSIVE LastResultFor(_, _, _)
LastResultFor(key, rows, previous) ==
    IF rows = << >> THEN previous
    ELSE LastResultFor(key, Tail(rows),
            IF KeyOf(Head(rows)) = key /\ LinesOf(Head(rows).result) # << >>
            THEN LinesOf(Head(rows).result)[Len(LinesOf(Head(rows).result))]
            ELSE previous)

\* C12: the final expected result of every entry is the cleaned form of the
\* last result line that is not empty once cleaned, among the rows filed
\* under the key; a row without such a line leaves the value as it was.
LastResultWins ==
    \A key \in DOMAIN scenarios_data :
        scenarios_data[key].final_expected_result = LastResultFor(key, Done, << >>)

\* what an entry held before a row: the value of a new entry if it was
\* not there
StepsBefore(key) ==
    IF key \in DOMAIN scenarios_data THEN scenarios_data[key].raw_action_steps
    ELSE << >>
ResultBefore(key) ==
    IF key \in DOMAIN scenarios_data THEN scenarios_data[key].final_expected_result
    ELSE << >>

\* a row whose step field is a sentinel or empty leaves every step list as
\* it was; a row whose result field is a sentinel leaves every final
\* expected result as it was
SentinelFrame ==
    [][row_index' = row_index + 1 =>
        \A key \in DOMAIN scenarios_data' :
            /\ SentinelOrEmpty(df_test_cases[row_index + 1].step) =>
                   scenarios_data'[key].raw_action_steps = StepsBefore(key)
            /\ SentinelOrEmpty(df_test_cases[row_index + 1].result) =>
                   scenarios_data'[key].final_expected_result = ResultBefore(key)]_vars

\* C13 as claimed: the frame above, and no step and no final expected
\* result begins with "ERROR_".
NoSentinelText ==
    /\ SentinelFrame
    /\ [](\A key \in DOMAIN scenarios_data :
            /\ \A k \in 1..Len(scenarios_data[key].raw_action_steps) :
                   ~StartsWithError(scenarios_data[key].raw_action_steps[k])
            /\ ~StartsWithError(scenarios_data[key].final_expected_result))

\* the lines of a field, cleaned, empty ones included
CleanedLines(cell) ==
    [k \in 1..Len(NonEmptyLines(Content(cell))) |->
        clean_step_text_for_gherkin(NonEmptyLines(Content(cell))[k])]

\* text is a line of a field, of a row filed under key, that does not
\* itself begin with "ERROR_"
FromOrdinaryField(key, text, field) ==
    \E i \in 1..row_index :
        /\ KeyOf(Done[i]) = key
        /\ ~SentinelOrEmpty(Done[i][field])
        /\ \E k \in 1..Len(CleanedLines(Done[i][field])) :
               CleanedLines(Done[i][field])[k] = text

\* C13 as amended: a row whose step field, once trimmed, is empty or begins
\* with "ERROR_" changes no step list, and a row whose result field is
\* empty or begins with "ERROR_" changes no final expected result; a step
\* or a final expected result that begins with "ERROR_" is a later line of
\* a field that begins with other text.
SentinelFieldsSkipped ==
    /\ SentinelFrame
    /\ [](\A key \in DOMAIN scenarios_data :
            /\ \A k \in 1..Len(scenarios_data[key].raw_action_steps) :
                   StartsWithError(scenarios_data[key].raw_action_steps[k]) =>
                       FromOrdinaryField(key,
                           scenarios_data[key].raw_action_steps[k], "step")
            /\ StartsWithError(scenarios_data[key].final_expected_result) =>
                   FromOrdinaryField(key,
                       scenarios_data[key].final_expected_result, "result"))

\* C13 witness: an entry that has steps and a result kept both when a row
\* with sentinel fields was filed under its key
SentinelSkippedWitness ==
    /\ row_index = 2
    /\ KeyOf(df_test_cases[1]) = KeyOf(df_test_cases[2])
    /\ ~df_test_cases[2].step.na
    /\ StartsWithError(Strip(df_test_cases[2].step.text))
    /\ StartsWithError(Strip(df_test_cases[2].result.text))
    /\ DOMAIN scenarios_data = {KeyOf(df_test_cases[1])}
    /\ scenarios_data[KeyOf(df_test_cases[1])].raw_action_steps =
           LinesOf(df_test_cases[1].step)
    /\ \E k \in 1..Len(LinesOf(df_test_cases[1].step)) :
           StartsWithError(LinesOf(df_test_cases[1].step)[k])
    /\ scenarios_data[KeyOf(df_test_cases[1])].final_expected_result # << >>

\* C14: the keys of scenarios_data are the distinct trimmed descriptions,
\* compared as they are written, of the rows whose description is not
\* missing and not blank; such a row has an entry even when it gave no step.
KeysAreDescriptions ==
    DOMAIN scenarios_data =
        {KeyOf(Done[i]) : i \in {j \in 1..row_index : KeyOf(Done[j]) # << >>}}

\* C14 witness: a row without a description and a row with sentinel fields
\* have been read; the second has an entry and the entry has no step
KeysWitness ==
    /\ row_index = 2
    /\ KeyOf(df_test_cases[1]) = << >>
    /\ ~df_test_cases[1].desc.na
    /\ SentinelOrEmpty(df_test_cases[2].step)
    /\ DOMAIN scenarios_data = {KeyOf(df_test_cases[2])}
    /\ scenarios_data[KeyOf(df_test_cases[2])].raw_action_steps = << >>

\* the orders in which n rows can be read
Orders(n) == {f \in [1..n -> 1..n] : \A i, j \in 1..n : f[i] = f[j] => i = j}

Reordered(rows, f) == [i \in 1..Len(rows) |-> rows[f[i]]]

\* an order that keeps the rows that share a key in the order they had
KeepsOrderWithinKeys(rows, f) ==
    \A i, j \in 1..Len(rows) :
        (i < j /\ KeyOf(rows[f[i]]) = KeyOf(rows[f[j]])) => f[i] < f[j]

Occurrences(list, x) == Cardinality({i \in 1..Len(list) : list[i] = x})

SameSteps(s, t) ==
    /\ Len(s) = Len(t)
    /\ \A i \in 1..Len(s) : Occurrences(s, s[i]) = Occurrences(t, s[i])

Finished == row_index = Len(df_test_cases)

\* C15 as claimed: whatever the order in which the rows are read, every
\* key has the same step list.
StepListsOrderIndependent ==
    Finished =>
        \A f \in Orders(Len(df_test_cases)) :
            /\ DOMAIN AggregateAll(Reordered(df_test_cases, f), EmptyDict) =
                   DOMAIN scenarios_data
            /\ \A key \in DOMAIN scenarios_data :
                   AggregateAll(Reordered(df_test_cases, f), EmptyDict)[key].raw_action_steps
                       = scenarios_data[key].raw_action_steps

\* C15 as amended: whatever the order in which the rows are read, the keys
\* are the same and every key has the same steps the same number of
\* times; the step lists are equal when the rows that share a description
\* are read in the same relative order.
StepListsUpToOrder ==
    Finished =>
        \A f \in Orders(Len(df_test_cases)) :
            /\ DOMAIN AggregateAll(Reordered(df_test_cases, f), EmptyDict) =
                   DOMAIN scenarios_data
            /\ \A key \in DOMAIN scenarios_data :
                   /\ SameSteps(
                          AggregateAll(Reordered(df_test_cases, f), EmptyDict)[key].raw_action_steps,
                          scenarios_data[key].raw_action_steps)
                   /\ KeepsOrderWithinKeys(df_test_cases, f) =>
                          AggregateAll(Reordered(df_test_cases, f), EmptyDict)[key].raw_action_steps
                              = scenarios_data[key].raw_action_steps

\* C15 witness: two rows filed under one key gave different steps, and the
\* other order of the two rows gives the entry another step list
OrderWitness ==
    /\ Finished
    /\ row_index = 2
    /\ KeyOf(df_test_cases[1]) = KeyOf(df_test_cases[2])
    /\ KeyOf(df_test_cases[1]) \in DOMAIN scenarios_data
    /\ AggregateAll(<<df_test_cases[2], df_test_cases[1]>>, EmptyDict)[KeyOf(df_test_cases[1])].raw_action_steps
           # scenarios_data[KeyOf(df_test_cases[1])].raw_action_steps

\* ------------------------------------------------------------------------
\* Properties of parse_comprehensive_test_cases: blocks and their fields
\* ------------------------------------------------------------------------
\* a label of class cls that a number follows
MarkerAt(t, p, cls) ==
    /\ Is(cls, t[p])
    /\ SkipWhile(t, SkipWhile(t, p + 1, "ws"), "digit") > SkipWhile(t, p + 1, "ws")

\* smallest q >= p with a marker at q, 0 when there is none
RECURSIVE NextMarker(_, _, _)
NextMarker(t, p, cls) ==
    IF p > Len(t) THEN 0
    ELSE IF MarkerAt(t, p, cls) THEN p ELSE NextMarker(t, p + 1, cls)

\* the blocks of a response: each runs from a marker to the next marker
RECURSIVE MarkerBlocksAt(_, _, _)
MarkerBlocksAt(t, m, cls) ==
    IF NextMarker(t, m + 1, cls) = 0 THEN <<Slice(t, m, Len(t))>>
    ELSE <<Slice(t, m, NextMarker(t, m + 1, cls) - 1)>>
         \o MarkerBlocksAt(t, NextMarker(t, m + 1, cls), cls)
MarkerBlocks(t, cls) ==
    IF NextMarker(t, 1, cls) = 0 THEN << >>
    ELSE MarkerBlocksAt(t, NextMarker(t, 1, cls), cls)

\* what the strict pattern gives for the argument of the call
StrictOf(text) == StrictLoop(FindAll(text, 1), p_in.usid, p_in.title, << >>)

\* the call returned the records of the strict pattern
ByStrict ==
    /\ Called
    /\ ~StartsWithError(p_in.text)
    /\ StrictOf(p_in.text).exc = None
    /\ StrictOf(p_in.text).recs # << >>

\* the strict pattern found nothing and the block split ran
BlockSplitRan ==
    /\ Called
    /\ ~StartsWithError(p_in.text)
    /\ StrictOf(p_in.text).exc = None
    /\ StrictOf(p_in.text).recs = << >>

\* C25: when the block split runs on a text that has numeric S.No markers,
\* the list returned has one record for each block a marker introduces,
\* the first block included, and a record whose block has no StepAction:
\* or no ExpectedResult: label holds the default text for that field.
BlockSplitOneRecordPerBlock ==
    (BlockSplitRan /\ MarkerBlocks(p_in.text, "SNo") # << >>) =>
        /\ Len(p_out.ret) = Len(MarkerBlocks(p_in.text, "SNo"))
        /\ \A k \in 1..Len(p_out.ret) :
               /\ FirstIn(MarkerBlocks(p_in.text, "SNo")[k], 1, "Step") = 0 =>
                      p_out.ret[k].step = <<T("No step actions specified")>>
               /\ FirstIn(MarkerBlocks(p_in.text, "SNo")[k], 1, "Res") = 0 =>
                      p_out.ret[k].result = <<T("Expected results not specified")>>

\* a line that begins with a number, a period and a blank
Numbered(line) ==
    /\ SkipWhile(line, 1, "digit") > 1
    /\ SkipWhile(line, 1, "digit") < Len(line)
    /\ line[SkipWhile(line, 1, "digit")] = T(".")
    /\ line[SkipWhile(line, 1, "digit") + 1] = SP

\* C26: in the records the strict pattern or the block split gave, no line
\* of the step field or of the result field begins with "N. ".
NoNumberedLines ==
    (ByStrict \/ (BlockSplitRan /\ p_out.ret # <<DefaultRecord(p_in.usid, p_in.title)>>)) =>
        \A k \in 1..Len(p_out.ret) :
            /\ \A i \in 1..Len(SplitLines(p_out.ret[k].step)) :
                   ~Numbered(SplitLines(p_out.ret[k].step)[i])
            /\ \A i \in 1..Len(SplitLines(p_out.ret[k].result)) :
                   ~Numbered(SplitLines(p_out.ret[k].result)[i])

\* the response is made of blocks that markers introduce
MadeOfBlocks(t) ==
    /\ NextMarker(t, 1, "SNoI") # 0
    /\ Strip(Slice(t, 1, NextMarker(t, 1, "SNoI") - 1)) = << >>

\* a block that has the three labels, in their order
Complete(block) == ChainAfter(block, FirstIn(block, 1, "DescI"))

\* C28: when the strict pattern gives the records of a response made of
\* blocks, every record is the record of one block read alone, and every
\* block that has the three labels has its record in the list.
FieldsFromOwnBlock ==
    (ByStrict /\ MadeOfBlocks(p_in.text)) =>
        /\ \A k \in 1..Len(p_out.ret) :
               \E b \in 1..Len(MarkerBlocks(p_in.text, "SNoI")) :
                   StrictOf(MarkerBlocks(p_in.text, "SNoI")[b]).recs = <<p_out.ret[k]>>
        /\ \A b \in 1..Len(MarkerBlocks(p_in.text, "SNoI")) :
               Complete(MarkerBlocks(p_in.text, "SNoI")[b]) =>
                   \E k \in 1..Len(p_out.ret) :
                       StrictOf(MarkerBlocks(p_in.text, "SNoI")[b]).recs = <<p_out.ret[k]>>

\* ------------------------------------------------------------------------
\* retry_api_call (lines 143-155)
\* ------------------------------------------------------------------------
MaxRetriesArg == 4

\* API_DELAY = 0.5
API_DELAY == Frac(1, 2)

\* what a call of func does: it returns a value or raises
FuncOutcomes ==
    {[raises |-> FALSE, v |-> r] : r \in {"a", "b"}}
    \cup {[raises |-> TRUE, v |-> e] :
             e \in {"ConnectionError", "ValueError", "KeyboardInterrupt"}}

\* "except Exception": KeyboardInterrupt is not an Exception
RetryCatches(exc) == exc # "KeyboardInterrupt"

\* a wait that does not grow
WaitTimeFixed(attempt) == API_DELAY

\* line 153: wait_time = API_DELAY * (2 ** attempt)
WaitTime(attempt) == Frac(API_DELAY.num * 2^attempt, API_DELAY.den)

\* what one failed call leads to
AfterFailure(exc) ==
    IF ~RetryCatches(exc) \/ retry.attempt = retry.max_retries - 1
    THEN [retry EXCEPT !.pc = "raised", !.raised = exc,
                       !.calls = Append(@, [raises |-> TRUE, v |-> exc])]
    ELSE [retry EXCEPT !.attempt = @ + 1,
                       !.sleeps = Append(@, WaitTime(retry.attempt)),
                       !.calls = Append(@, [raises |-> TRUE, v |-> exc])]

\* one turn of "for attempt in range(max_retries)"; with an empty range the
\* function ends and returns None
RetryAttempt(outcome) ==
    /\ retry.pc = "loop"
    /\ retry' =
          IF retry.attempt >= retry.max_retries
          THEN [retry EXCEPT !.pc = "returned"]
          ELSE IF ~outcome.raises
          THEN [retry EXCEPT !.pc = "returned", !.ret = outcome.v,
                             !.calls = Append(@, outcome)]
          ELSE AfterFailure(outcome.v)
    /\ UNCHANGED <<p_in, p_out, agg_vars, feat_vars,
                   gui_vars, gemini_api_available, disk, worker, tc_done>>

InitRetry ==
    /\ PipeQuiet
    /\ p_in = NoInput /\ p_out = NotCalled
    /\ AggIdle /\ FeatIdle
    /\ \E n \in 0..MaxRetriesArg :
           retry = [NoRetry EXCEPT !.pc = "loop", !.max_retries = n]

NextRetry == \E outcome \in FuncOutcomes : RetryAttempt(outcome)
SpecRetry == InitRetry /\ [][NextRetry]_vars

Failures(calls) == {k \in 1..Len(calls) : calls[k].raises}

\* C27: in a call with max_retries >= 1, func is called at most
\* max_retries times; the call returns the value of the first call of
\* func that returned, and that call of func is the last; when max_retries
\* calls of func have raised, the call raises the exception of the last;
\* the k-th wait (k from 0) lasts API_DELAY * 2^k, there is one after
\* every failed call but the one that ends the call.
RetryContract ==
    retry.max_retries >= 1 =>
        /\ Len(retry.calls) <= retry.max_retries
        /\ retry.pc = "returned" =>
               /\ Failures(retry.calls) = 1..(Len(retry.calls) - 1)
               /\ retry.ret = retry.calls[Len(retry.calls)].v
        /\ Cardinality(Failures(retry.calls)) = retry.max_retries =>
               /\ retry.pc = "raised"
               /\ retry.raised = retry.calls[retry.max_retries].v
        /\ Len(retry.sleeps) = Cardinality(Failures(retry.calls))
                                 - (IF retry.pc = "raised" THEN 1 ELSE 0)
        /\ \A k \in 1..Len(retry.sleeps) :
               Leq(retry.sleeps[k], Frac(2^(k - 1), 2))
               /\ Leq(Frac(2^(k - 1), 2), retry.sleeps[k])

\* C27 witness: with max_retries = MAX_RETRIES the third call of func
\* returned, after waits of 0.5 and 1
RetryWitness ==
    /\ retry.pc = "returned"
    /\ retry.max_retries = MAX_RETRIES
    /\ Len(retry.calls) = MAX_RETRIES
    /\ retry.sleeps = <<Frac(1, 2), Whole(1)>>
    /\ retry.ret = "a"

\* ------------------------------------------------------------------------
\* Feature synthesis in generate_bdd_files_backend (lines 552-664)
\* ------------------------------------------------------------------------
\* the keys of scenarios_data in the order of scenarios_data.items(): the
\* order in which the loop of line 511 made the entries
RECURSIVE InsertionOrder(_, _)
InsertionOrder(rows, seen) ==
    IF rows = << >> THEN << >>
    ELSE IF IsMissing(Head(rows).desc) \/ Strip(Head(rows).desc.text) \in seen
    THEN InsertionOrder(Tail(rows), seen)
    ELSE <<Strip(Head(rows).desc.text)>>
         \o InsertionOrder(Tail(rows), seen \cup {Strip(Head(rows).desc.text)})

Indent(n) == [i \in 1..n |-> SP]
GivenStep == <<T("Given "), T("User provided with CVT URL")>>
DefaultWhenStep == <<T("When "), T("the system processes the request")>>
DefaultThenStep == <<T("Then "), T("the expected outcome should be achieved")>>

\* a loop that never clears is_first_action_step
RECURSIVE ActionStepsAllWhen(_, _)
ActionStepsAllWhen(raw_action_steps, is_first_action_step) ==
    IF raw_action_steps = << >> THEN << >>
    ELSE <<(IF is_first_action_step THEN <<T("When ")>> ELSE <<T("And ")>>)
           \o Head(raw_action_steps)>>
         \o ActionStepsAllWhen(Tail(raw_action_steps), is_first_action_step)

\* lines 631-639: the loop over raw_action_steps with is_first_action_step;
\* the list of the steps with their keywords
RECURSIVE ActionSteps(_, _)
ActionSteps(raw_action_steps, is_first_action_step) ==
    IF raw_action_steps = << >> THEN << >>
    ELSE <<(IF is_first_action_step THEN <<T("When ")>> ELSE <<T("And ")>>)
           \o Head(raw_action_steps)>>
         \o ActionSteps(Tail(raw_action_steps), FALSE)

\* an entry that always gets the placeholder step
ScenarioStepsPlaceholder(data) ==
    <<GivenStep, DefaultWhenStep,
      IF data.final_expected_result # << >>
      THEN <<T("Then ")>> \o data.final_expected_result
      ELSE DefaultThenStep>>

\* lines 626-653: the steps of one scenario, in the order they are written
ScenarioSteps(data) ==
    <<GivenStep>>
    \o (IF data.raw_action_steps # << >>
        THEN ActionSteps(data.raw_action_steps, TRUE)
        ELSE <<DefaultWhenStep>>)
    \o <<IF data.final_expected_result # << >>
         THEN <<T("Then ")>> \o data.final_expected_result
         ELSE DefaultThenStep>>

\* the text of the step lines: f"    {step}\n" for each
RECURSIVE StepText(_)
StepText(steps) ==
    IF steps = << >> THEN << >>
    ELSE Indent(4) \o Head(steps) \o <<NL>> \o StepText(Tail(steps))

\* lines 618-655: the loop over scenarios_data.items()
RECURSIVE LocalFeature(_, _, _)
LocalFeature(titles, data, added_features_local) ==
    IF titles = << >> THEN << >>
    ELSE (IF data[Head(titles)].feature_name \notin added_features_local
          THEN <<T("Feature: "), T(data[Head(titles)].feature_name), NL, NL>>
          ELSE << >>)
         \o Indent(2) \o <<T("Scenario: ")>> \o Head(titles) \o <<NL>>
         \o StepText(ScenarioSteps(data[Head(titles)]))
         \o <<NL>>
         \o LocalFeature(Tail(titles), data,
                added_features_local \cup {data[Head(titles)].feature_name})

\* the steps the local path adds to the vocabulary
LocalVocabulary(data) ==
    UNION {{ScenarioSteps(data[t])[k] : k \in 1..Len(ScenarioSteps(data[t]))} :
              t \in DOMAIN data}

\* the fences of a code block: three backquotes, and three backquotes with
\* the word gherkin (ten characters)
Fence == [k |-> "fence", n |-> 3]
FenceGherkin == [k |-> "fence gherkin", n |-> 10]

\* re.search of line 595, with re.DOTALL: group 1 runs from the newline
\* after the first opening fence to the last three backquotes of the text
IsFence(c) == c \in {Fence, FenceGherkin}
RECURSIVE FenceOpen(_, _)
FenceOpen(t, p) ==
    IF p + 1 > Len(t) THEN 0
    ELSE IF t[p] = FenceGherkin /\ t[p + 1] = NL
            /\ \E q \in (p + 2)..Len(t) : IsFence(t[q])
    THEN p ELSE FenceOpen(t, p + 1)
FenceClose(t, p) == CHOOSE q \in (p + 2)..Len(t) :
                        IsFence(t[q]) /\ \A r \in (q + 1)..Len(t) : ~IsFence(t[r])

\* lines 595-599
GherkinContent(text) ==
    IF FenceOpen(text, 1) # 0
    THEN Strip(Slice(text, FenceOpen(text, 1) + 2,
                     FenceClose(text, FenceOpen(text, 1)) - 1))
    ELSE Strip(text)

\* lines 603-606: the stripped lines that start with a Gherkin keyword.  A
\* keyword ends with a blank, which strip() removes when nothing follows
\* it: such a line is no step.  (No text of the model ends a line with
\* another token that ends with a blank.)
Keywords == {T("Given "), T("When "), T("Then "), T("And ")}
StepsIn(content) ==
    {Strip(SplitLines(content)[i]) :
        i \in {j \in 1..Len(SplitLines(content)) :
                  /\ Len(Strip(SplitLines(content)[j])) >= 2
                  /\ Head(Strip(SplitLines(content)[j])) \in Keywords}}

\* what model.generate_content(feature_file_prompt) does
FeatureAnswers ==
    { <<FenceGherkin, NL, T("Feature: "), T("F"), NL, SP, SP, T("Scenario: "),
        T("A"), NL, SP, SP, SP, SP, T("When "), T("x"), NL, Fence>>,
      <<T("Scenario: "), T("A"), NL, T("Then "), T("r"), NL>>,
      <<T("a"), SP, T("b")>>,
      << >> }
FeatureOutcomes == {ModelRaises} \cup {ModelReturns(t) : t \in FeatureAnswers}

\* a synthesis that lets the exception of the model call through
SynthesizedNoTry(available, titles, data, outcome) ==
    IF available /\ outcome.raises
    THEN [content |-> << >>, vocabulary |-> {}, model |-> "raised",
          local |-> FALSE, exc |-> "Exception"]
    ELSE IF available
    THEN [content |-> GherkinContent(outcome.text),
          vocabulary |-> StepsIn(GherkinContent(outcome.text)),
          model |-> "returned", local |-> FALSE, exc |-> None]
    ELSE [content |-> LocalFeature(titles, data, {}),
          vocabulary |-> LocalVocabulary(data),
          model |-> "not called", local |-> TRUE, exc |-> None]

\* lines 585-656: the feature text and the vocabulary, by the model or by
\* the local path
Synthesized(available, titles, data, outcome) ==
    IF available /\ ~outcome.raises
    THEN [content |-> GherkinContent(outcome.text),
          vocabulary |-> StepsIn(GherkinContent(outcome.text)),
          model |-> "returned", local |-> FALSE, exc |-> None]
    ELSE [content |-> LocalFeature(titles, data, {}),
          vocabulary |-> LocalVocabulary(data),
          model |-> IF available THEN "raised" ELSE "not called",
          local |-> TRUE, exc |-> None]

\* the synthesis for the scenarios the loop has made
SynthesizedNow(outcome) ==
    Synthesized(gemini_api_available, InsertionOrder(df_test_cases, {}),
                scenarios_data, outcome)

\* lines 552-664, after the loop over the rows: nothing is done without a
\* scenario; else the feature text is made and written
Synthesize(outcome, write) ==
    /\ synthesis.pc = "before"
    /\ row_index = Len(df_test_cases)
    /\ IF scenarios_data = EmptyDict
       THEN /\ synthesis' = [synthesis EXCEPT !.pc = "no scenarios"]
            /\ UNCHANGED <<generated_feature_content,
                           all_unique_gherkin_steps_for_llm_context, feature_file>>
       ELSE /\ generated_feature_content' = SynthesizedNow(outcome).content
            /\ all_unique_gherkin_steps_for_llm_context' =
                   SynthesizedNow(outcome).vocabulary
            /\ feature_file' =
                   IF write = "ok" /\ SynthesizedNow(outcome).exc = None
                   THEN [written |-> TRUE, text |-> SynthesizedNow(outcome).content]
                   ELSE feature_file
            /\ synthesis' =
                   [pc |-> "done", model |-> SynthesizedNow(outcome).model,
                    local |-> SynthesizedNow(outcome).local,
                    exc |-> IF SynthesizedNow(outcome).exc # None
                            THEN SynthesizedNow(outcome).exc
                            ELSE IF write = "ok" THEN None ELSE "OSError"]
    /\ UNCHANGED <<p_in, p_out, agg_vars, retry,
                   gui_vars, gemini_api_available, disk, worker, tc_done>>

\* the sheets the synthesis is run on
FeatureDescCells == {NaN, Cell(<<T("A")>>), Cell(<<SP, T("A"), SP>>), Cell(<<T("a")>>),
                     Cell(<<T("A"), NL, T("a")>>)}
FeaturePairs ==
    { [step |-> Cell(<<T("x"), NL, SP, T("y"), T(".")>>), result |-> Cell(<<T("r")>>)],
      [step |-> Cell(Sentinel("API_CALL_FAILED_TEST_CASES")),
       result |-> Cell(Sentinel("API_CALL_FAILED_TEST_CASES"))],
      [step |-> Cell(<<T(","), NL, T("z")>>), result |-> NaN] }
FeatureRows == {[desc |-> d, step |-> f.step, result |-> f.result] :
                   d \in FeatureDescCells, f \in FeaturePairs}

InitFeature ==
    /\ PipeInit
    /\ disk = [d \in Dirs |-> NoFile]
    /\ p_in = NoInput /\ p_out = NotCalled
    /\ c_in = << >> /\ c_out = NotCleaned
    /\ FeatIdle /\ retry = NoRetry
    /\ df_test_cases \in UNION {[1..n -> FeatureRows] : n \in 0..MaxRows}
    /\ row_index = 0
    /\ scenarios_data = EmptyDict

NextFeature ==
    \/ AggregateNext
    \/ \E outcome \in FeatureOutcomes, write \in {"ok", "raises"} :
           Synthesize(outcome, write)
SpecFeature == InitFeature /\ [][NextFeature]_vars

\* ------------------------------------------------------------------------
\* Properties of the feature synthesis
\* ------------------------------------------------------------------------
\* the local path has made the feature text
LocalDone == synthesis.pc = "done" /\ synthesis.local

\* the positions of the Scenario keyword in a text
ScenarioMarks(t) == {p \in 1..Len(t) : t[p] = T("Scenario: ")}

\* the keyword at p stands at the start of a line behind exactly two blanks
IndentedByTwo(t, p) ==
    /\ p >= 3
    /\ t[p - 1] = SP /\ t[p - 2] = SP
    /\ p = 3 \/ t[p - 3] = NL

\* the last position of the block of the keyword at p: the block ends where
\* the line of the next Scenario keyword begins
BlockEnd(t, p) ==
    IF \E q \in ScenarioMarks(t) : q > p
    THEN (CHOOSE q \in ScenarioMarks(t) :
              q > p /\ \A r \in ScenarioMarks(t) : r > p => q <= r) - 3
    ELSE Len(t)

\* the lines of a text that are not empty
NotEmpty(line) == line # << >>
WrittenLines(t) == SelectSeq(SplitLines(t), NotEmpty)

\* the lines below a Scenario line for the steps of an entry: one Given
\* line, the first step behind When, each further step behind And in the
\* order of the list, one Then line, behind four blanks each
StepLinesFor(lines, steps) ==
    /\ Len(lines) = Len(steps) + 2
    /\ lines[1] = Indent(4) \o GivenStep
    /\ lines[2] = Indent(4) \o <<T("When ")>> \o steps[1]
    /\ \A j \in 2..Len(steps) : lines[j + 1] = Indent(4) \o <<T("And ")>> \o steps[j]
    /\ IsPrefix(Indent(4) \o <<T("Then ")>>, lines[Len(steps) + 2])
    /\ Len(lines[Len(steps) + 2]) > 5

\* the block of the keyword at p is the block of the entry title
BlockOf(t, p, title, steps) ==
    /\ IndentedByTwo(t, p)
    /\ Slice(t, p + 1, p + Len(title) + 1) = title \o <<NL>>
    /\ StepLinesFor(WrittenLines(Slice(t, p + Len(title) + 2, BlockEnd(t, p))), steps)

\* the lines of a block whose fifth token is the keyword
KeywordLines(lines, keyword) ==
    {j \in 1..Len(lines) : Len(lines[j]) >= 5 /\ lines[j][5] = T(keyword)}

\* C21: when the local path has made the feature text, every entry with at
\* least one step has exactly one block in it: two blanks, the Scenario
\* keyword, the key of the entry as it is and a line break, then one Given
\* line, one When line with the first step, one And line for each further
\* step in the order of the list, and one Then line, each behind exactly
\* four blanks and nothing else but empty lines.
LocalBlockPerEntry ==
    LocalDone =>
        \A title \in DOMAIN scenarios_data :
            Len(scenarios_data[title].raw_action_steps) >= 1 =>
                Cardinality({p \in ScenarioMarks(generated_feature_content) :
                    BlockOf(generated_feature_content, p, title,
                            scenarios_data[title].raw_action_steps)}) = 1

\* C21 witness: an entry with three steps has its block, with one When
\* line, two And lines and one Then line
LocalBlockWitness ==
    /\ LocalDone
    /\ \E title \in DOMAIN scenarios_data :
        /\ Len(scenarios_data[title].raw_action_steps) = 3
        /\ \E p \in ScenarioMarks(generated_feature_content) :
            /\ BlockOf(generated_feature_content, p, title,
                       scenarios_data[title].raw_action_steps)
            /\ Cardinality(KeywordLines(WrittenLines(Slice(generated_feature_content,
                   p + Len(title) + 2, BlockEnd(generated_feature_content, p))),
                   "And ")) = 2
            /\ Cardinality(KeywordLines(WrittenLines(Slice(generated_feature_content,
                   p + Len(title) + 2, BlockEnd(generated_feature_content, p))),
                   "When ")) = 1

\* smallest q >= p with t[q] = c, 0 when there is none
RECURSIVE NextToken(_, _, _)
NextToken(t, p, c) ==
    IF p > Len(t) THEN 0
    ELSE IF t[p] = c THEN p ELSE NextToken(t, p + 1, c)

\* the text between the Scenario keyword at p and the line of the Given
\* step below it, and the lines from the Given step to the end of the block
TitleAt(t, p) == Slice(t, p + 1, NextToken(t, p, T("Given ")) - 5)
LinesAt(t, p) ==
    WrittenLines(Slice(t, NextToken(t, p, T("Given ")) - 4, BlockEnd(t, p)))

\* the descriptions of the rows, trimmed, without the empty ones
Descriptions == {KeyOf(df_test_cases[i]) : i \in 1..Len(df_test_cases)} \ {<< >>}

\* the block at p has one When line and one Then line; the When line is
\* the placeholder step exactly when steps is empty, the Then line the
\* placeholder sentence exactly when result is empty
PlaceholdersAt(lines, steps, result) ==
    /\ Cardinality(KeywordLines(lines, "When ")) = 1
    /\ Cardinality(KeywordLines(lines, "Then ")) = 1
    /\ (\E j \in KeywordLines(lines, "When ") : lines[j] = Indent(4) \o DefaultWhenStep)
           <=> steps = << >>
    /\ (\E j \in KeywordLines(lines, "Then ") : lines[j] = Indent(4) \o DefaultThenStep)
           <=> result = << >>

\* C22: when the model is not available and the feature text has been made,
\* the text has one Scenario line for each distinct trimmed non-empty
\* description of the rows and no other; the scenario of a description has
\* one When line, which is the placeholder step exactly when the step list
\* of its entry is empty, and one Then line, which is the placeholder
\* sentence exactly when the final expected result of its entry is empty.
OneScenarioPerDescription ==
    (synthesis.pc = "done" /\ ~gemini_api_available) =>
        /\ Cardinality(ScenarioMarks(generated_feature_content)) =
               Cardinality(Descriptions)
        /\ \A key \in Descriptions :
               \E p \in ScenarioMarks(generated_feature_content) :
                   /\ TitleAt(generated_feature_content, p) = key \o <<NL>>
                   /\ PlaceholdersAt(LinesAt(generated_feature_content, p),
                                     scenarios_data[key].raw_action_steps,
                                     scenarios_data[key].final_expected_result)

\* C22 witness: two descriptions, one whose entry has no step and no result,
\* one whose entry has both, and the text has the two scenarios
PlaceholderWitness ==
    /\ synthesis.pc = "done" /\ ~gemini_api_available
    /\ Cardinality(ScenarioMarks(generated_feature_content)) = 2
    /\ \E k1, k2 \in Descriptions :
        /\ scenarios_data[k1].raw_action_steps = << >>
        /\ scenarios_data[k1].final_expected_result = << >>
        /\ scenarios_data[k2].raw_action_steps # << >>
        /\ scenarios_data[k2].final_expected_result # << >>
        /\ feature_file.written

\* the step lines of a text: what stands behind the indentation on the
\* lines whose first word is a Gherkin keyword
StepLinesOf(text) ==
    {Slice(WrittenLines(text)[j], 5, Len(WrittenLines(text)[j])) :
        j \in {i \in 1..Len(WrittenLines(text)) :
                  /\ Len(WrittenLines(text)[i]) >= 5
                  /\ WrittenLines(text)[i][5] \in Keywords}}

\* the text the local path makes of the scenarios the loop has made
LocalRendering == LocalFeature(InsertionOrder(df_test_cases, {}), scenarios_data, {})

\* C23: when the model call of the synthesis has raised, the exception does
\* not leave the synthesis (the only error left is one of writing the
\* file); the text that is written is the local rendering of the scenario
\* map, and every step line of that rendering is in the vocabulary.
RaiseFallsBackToLocal ==
    (synthesis.pc = "done" /\ synthesis.model = "raised") =>
        /\ synthesis.exc \in {None, "OSError"}
        /\ synthesis.exc = None =>
               feature_file = [written |-> TRUE, text |-> LocalRendering]
        /\ StepLinesOf(LocalRendering) \subseteq
               all_unique_gherkin_steps_for_llm_context

\* C23 witness: the model was available and its call raised; the file holds
\* the local rendering, with a step behind And that is in the vocabulary
RaiseWitness ==
    /\ synthesis.pc = "done" /\ synthesis.model = "raised"
    /\ gemini_api_available
    /\ feature_file.written /\ feature_file.text = LocalRendering
    /\ \E step \in all_unique_gherkin_steps_for_llm_context :
           Head(step) = T("And ") /\ step \in StepLinesOf(feature_file.text)

\* C24: a run whose vocabulary is empty after the synthesis (the feature
\* file has been written) ends at the emission decision, with no call of
\* the model for code and no exception, and the text it reports is the one
\* of an empty vocabulary: not the one of an emission and not the one of a
\* model that is not available.
EmptyVocabularyReported ==
    [][\A w \in Slots :
        (worker[w].pc = "p2_emit" /\ worker[w].vocab = "empty"
            /\ worker'[w] # worker[w]) =>
                /\ worker'[w].pc = "finally"
                /\ worker'[w].caught = None /\ worker'[w].uncaught = None
                /\ worker'[w].report = StatusNoSteps
                /\ worker'[w].report \notin {StatusEmitting, StatusNotAvailable}]_vars

\* C29: when "Generate BDD Files" starts a run, and when that run reads the
\* test-case file, the records of the file were generated by phase 1 for
\* the input file that is selected at that moment.
Phase2ReadsCurrentInput ==
    [][\A w \in Slots :
        /\ (~Active(w) /\ worker'[w].kind = "bdd") =>
                disk[generated_test_cases_file_path].input_file_path =
                    user_story_input_file_path
        /\ (worker[w].pc = "p2_read" /\ worker[w].kind = "bdd"
                /\ worker'[w].pc = "p2_feature") =>
                disk[generated_test_cases_file_path].input_file_path =
                    user_story_input_file_path]_vars

\* the controls every finally block enables again
ReenabledControls == {"generate_test_cases", "select_acceptance", "clear", "change_dir"}

\* the statements a thread has left at most: the rows of the table that are
\* left, the steps of the two phases, the statements of the finally block
StepsLeft(me) ==
    CASE me.pc = "idle" -> 0
      [] me.pc = "finally" -> Len(FinallyBlock(me.kind)) - me.fin + 1
      [] me.pc = "p2_python" -> 7
      [] me.pc = "p2_java" -> 8
      [] me.pc = "p2_javascript" -> 9
      [] me.pc = "p2_emit" -> 10
      [] me.pc = "p2_feature" -> 11
      [] me.pc = "p2_read" -> 12
      [] me.pc = "after_p1" -> 13
      [] me.pc = "p1_save" -> 14
      [] me.pc = "p1_story" -> 14 + (me.n - me.i)
      [] me.pc = "p1_read" -> 15 + MaxStories

====
